---- MODULE Spec2Model ----
(***************************************************************************)
(* A model of the crush runtime core:                                      *)
(*   - the instance registry behind the control-plane server               *)
(*     (internal/server, internal/client), specification SpecServer;       *)
(*   - the background process manager (internal/shell), specification      *)
(*     SpecShell;                                                          *)
(*   - the MCP tool-client orchestrator (internal/llm/agent), specification *)
(*     SpecMCP;                                                            *)
(*   - the hook executor (internal/hooks), specifications SpecHooks and    *)
(*     SpecMatch;                                                          *)
(*   - the client's event subscription (internal/client), specification    *)
(*     SpecEvents;                                                         *)
(*   - the server's event streams (internal/server), specification         *)
(*     SpecStream;                                                         *)
(*   - the locks of the background process manager, with several tasks and *)
(*     callers, specification SpecLocks.                                   *)
(* Each component has its own Init/Next; the variables of the other        *)
(* components stay at their initial values.                                *)
(***************************************************************************)
EXTENDS Naturals, Integers, Sequences, FiniteSets, TLC

VARIABLES
    \* ---- control-plane server ----
    instances,   \* Server.instances: csync.Map[string, *Instance], id -> instance
    last,        \* the last request handled and the response it got
    \* ---- background process manager ----
    shells,      \* BackgroundShellManager.shells: the ids in the map
    bg,          \* every BackgroundShell ever started, id -> its fields
    nextId,      \* the next identifier hotdiva2000.Generate() hands out
    killWaiting, \* id -> Kill calls blocked on <-shell.done
    killOk,      \* id -> Kill calls that returned nil
    lastKill,    \* the last Kill call and what its registry lookup found
    lastOut,     \* the last GetOutput call and its result
    doneOut,     \* id -> the first GetOutput result that reported done
    lastStart,   \* the last Start call and what it returned
    \* ---- MCP tool-client orchestrator ----
    mcpCfg,          \* cfg.MCP: name -> [Disabled]
    mcpTools,        \* mcpTools: the tool names in the aggregate map
    mcpClient2Tools, \* mcpClient2Tools: name -> the provider's tools
    mcpClients,      \* mcpClients: name -> connection handle
    mcpStates,       \* mcpStates: name -> MCPClientInfo
    mcpThreads,      \* the init goroutines and the runTool calls: locals and position
    mcpMain,         \* doGetMCPTools itself: names visited, wg, result, returned
    mcpClosed,       \* the handles Close() was called on
    mcpCrashed,      \* a panic left a goroutine unrecovered
    mcpPublished,    \* name -> the mcpBroker.Publish calls made for it, by event type
    mcpNotified,     \* name -> the notifications its handles have delivered: count, last method
    \* ---- hook executor ----
    hookCfg,     \* Executor.config: event type -> matchers
    hookEnv,     \* the environment of Executor.shell
    hookCall,    \* the Execute call in progress: context, position, result
    hookLog,     \* the hook commands run so far, in the order they started
    hookCalls,   \* the Execute calls made so far, in call order
    matchArgs,   \* the matcher and the context matcherApplies is given
    matchResult, \* what matcherApplies returned
    \* ---- client event subscription ----
    evStream,    \* the frames the server has yet to send on the response body
    evLoop,      \* the read loop goroutine of SubscribeEvents
    evChan,      \* the channel SubscribeEvents returned: buffer and closed flag
    evCtx,       \* the subscription context is done
    evGot,       \* what the subscriber has received from the channel
    evSent,      \* the frames read so far and what the loop did with each
    \* ---- server event streams ----
    streamSubs,  \* subscriber -> its handleGetInstanceEvents call and its connection
    streamFeed,  \* the events in the instance's event channel, not yet received by a handler
    streamPub,   \* the number of events the instance's app has published
    \* ---- background process manager: the locks ----
    lkMu,        \* BackgroundShellManager.mu: the writer and the readers holding it
    lkShells,    \* BackgroundShellManager.shells: the ids in the map
    lkRun,       \* id -> the runner goroutine, the shell's context and the readers of its mu
    lkCalls,     \* goroutine -> the manager call it is in and its position
    lkNext,      \* the next id Generate() hands out
    \* ---- control-plane server: concurrent create requests ----
    crInstances, \* Server.instances: id -> instance
    crCalls,     \* handler goroutine -> its handlePostInstances call: position and response
    crApps,      \* every instance (app, agent, database connection) constructed so far
    \* ---- client: the instance id of its requests ----
    clClients,   \* client process -> its Client: working directory, path and id
    clInstances, \* Server.instances: id -> path
    clLast       \* client process -> its last per-instance request and the status answered

serverVars == <<instances, last>>
shellVars  == <<shells, bg, nextId, killWaiting, killOk, lastKill, lastOut, doneOut, lastStart>>
mcpVars    == <<mcpCfg, mcpTools, mcpClient2Tools, mcpClients, mcpStates, mcpThreads,
                mcpMain, mcpClosed, mcpCrashed, mcpPublished, mcpNotified>>
hookVars   == <<hookCfg, hookEnv, hookCall, hookLog, hookCalls>>
matchVars  == <<matchArgs, matchResult>>
eventVars  == <<evStream, evLoop, evChan, evCtx, evGot, evSent>>
streamVars == <<streamSubs, streamFeed, streamPub>>
lockVars   == <<lkMu, lkShells, lkRun, lkCalls, lkNext>>
createVars == <<crInstances, crCalls, crApps>>
clientVars == <<clClients, clInstances, clLast>>
vars       == <<serverVars, shellVars, mcpVars, hookVars, matchVars, eventVars, streamVars, lockVars,
                createVars, clientVars>>
nonServerVars == <<shellVars, mcpVars, hookVars, matchVars, eventVars, streamVars, lockVars,
                     createVars, clientVars>>
nonShellVars == <<serverVars, mcpVars, hookVars, matchVars, eventVars, streamVars, lockVars,
                     createVars, clientVars>>
nonMCPVars == <<serverVars, shellVars, hookVars, matchVars, eventVars, streamVars, lockVars,
                     createVars, clientVars>>
nonHookVars == <<serverVars, shellVars, mcpVars, matchVars, eventVars, streamVars, lockVars,
                     createVars, clientVars>>
nonMatchVars == <<serverVars, shellVars, mcpVars, hookVars, eventVars, streamVars, lockVars,
                     createVars, clientVars>>
nonEventVars == <<serverVars, shellVars, mcpVars, hookVars, matchVars, streamVars, lockVars,
                     createVars, clientVars>>
nonStreamVars == <<serverVars, shellVars, mcpVars, hookVars, matchVars, eventVars, lockVars,
                     createVars, clientVars>>
nonLockVars == <<serverVars, shellVars, mcpVars, hookVars, matchVars, eventVars, streamVars,
                     createVars, clientVars>>
nonCreateVars == <<serverVars, shellVars, mcpVars, hookVars, matchVars, eventVars, streamVars,
                     lockVars, clientVars>>
nonClientVars == <<serverVars, shellVars, mcpVars, hookVars, matchVars, eventVars, streamVars,
                     lockVars, createVars>>

\* ------------------------------------------------------------------------
\* Bounds
\* ------------------------------------------------------------------------
MaxTasks == 1
MaxLines == 2

\* The notifications a provider sends.
MaxNotifications == 1

\* ========================================================================
\* Control-plane server: the instance registry
\* ========================================================================

\* A path is the sequence of its elements below the root: "/a/./.." is
\* <<"a", ".", "..">>.
\* The working directories clients ask for: "/", "/.", "/a/..", "/a", "/a/.".
Paths    == {<<>>, <<".">>, <<"a", "..">>, <<"a">>, <<"a", ".">>}
DataDirs == {"", "d"}

\* filepath.Clean on a rooted path: "." elements are dropped, ".." removes
\* the element before it, and ".." at the root is dropped.
RECURSIVE CleanAcc(_, _)
CleanAcc(rest, acc) ==
    IF rest = <<>> THEN acc
    ELSE LET h == Head(rest)
         IN  CleanAcc(Tail(rest),
                 IF h = "." THEN acc
                 ELSE IF h = ".."
                      THEN (IF acc = <<>> THEN acc ELSE SubSeq(acc, 1, Len(acc) - 1))
                      ELSE Append(acc, h))

Clean(path) == CleanAcc(path, <<>>)

\* hex(sha256(bytes)): injective on the paths of the model.
Hash(bytes) == <<"sha256", bytes>>

InstanceIDRaw(path) == Hash(path)
\* handlePostInstances: id := hex(sha256(filepath.Clean(args.Path)))
InstanceID(path) == Hash(Clean(path))

NoID   == <<>>
\* The ids requests name: those of the paths above and one that no path has.
AllIDs == {Hash(Clean(p)) : p \in Paths} \cup {Hash(<<"zz">>)}

\* proto.Instance, the descriptor on the wire.
Descriptor(id, path, yolo, debug, dataDir) ==
    [ID |-> id, Path |-> path, YOLO |-> yolo, Debug |-> debug, DataDir |-> dataDir]
NoBody == Descriptor(NoID, <<>>, FALSE, FALSE, "")

\* config.Init(path, dataDir, debug): the data-directory override and the
\* debug flag of the request become the instance's options.
ConfigInit(path, dataDir, debug) == [Debug |-> debug, DataDirectory |-> dataDir]

\* The response of handlePostInstances when the id is already registered.
ExistingDescriptor(ins) ==
    Descriptor(ins.id, ins.path, ins.yolo, ins.cfg.Debug, ins.cfg.DataDirectory)

\* The response of handlePostInstances after it registered a new instance:
\* ID, Path and YOLO only; Debug and DataDir keep their zero values.
CreatedDescriptor(id, path, yolo) == Descriptor(id, path, yolo, FALSE, "")

NoLast ==
    [op |-> "none", id |-> NoID, path |-> <<>>, ids |-> {}, status |-> 0,
     msg |-> "", body |-> NoBody, hit |-> FALSE, differs |-> FALSE, acted |-> FALSE]

\* The steps of handlePostInstances that can fail before the instance is
\* registered, with the status and message of each. The body is decoded
\* before the path is looked at.
CreateOutcomes == {"ok", "decode", "config", "mkdir", "db", "app"}
CreateFailureNoMessage(o) == [status |-> 500, msg |-> ""]
CreateFailure(o) ==
    CASE o = "decode" -> [status |-> 400, msg |-> "failed to decode request"]
      [] o = "config" -> [status |-> 400, msg |-> "failed to initialize config"]
      [] o = "mkdir"  -> [status |-> 500, msg |-> "failed to create data directory"]
      [] o = "db"     -> [status |-> 500, msg |-> "failed to connect to database"]
      [] o = "app"    -> [status |-> 500, msg |-> "failed to create app instance"]

\* POST /v1/instances
handlePostInstances(path, dataDir, debug, yolo, outcome) ==
    LET id == InstanceID(path) IN
    IF outcome = "decode"
    THEN /\ instances' = instances
         /\ last' = [NoLast EXCEPT !.op = "create",
                        !.status = CreateFailure(outcome).status,
                        !.msg = CreateFailure(outcome).msg]
    ELSE IF id \in DOMAIN instances
    THEN LET existing == instances[id] IN
         /\ outcome = "ok"
         /\ instances' = instances
         /\ last' = [NoLast EXCEPT !.op = "create", !.id = id, !.path = path,
                        !.status = 200, !.body = ExistingDescriptor(existing),
                        !.hit = TRUE,
                        !.differs = \/ existing.cfg.Debug # debug
                                    \/ existing.cfg.DataDirectory # dataDir
                                    \/ existing.yolo # yolo]
    ELSE IF outcome # "ok"
    THEN /\ instances' = instances
         /\ last' = [NoLast EXCEPT !.op = "create", !.id = id, !.path = path,
                        !.status = CreateFailure(outcome).status,
                        !.msg = CreateFailure(outcome).msg]
    ELSE LET ins == [id |-> id, path |-> path, yolo |-> yolo,
                     cfg |-> ConfigInit(path, dataDir, debug),
                     created |-> CreatedDescriptor(id, path, yolo)]
         IN  /\ instances' = [i \in DOMAIN instances \cup {id} |->
                                 IF i = id THEN ins ELSE instances[i]]
             /\ last' = [NoLast EXCEPT !.op = "create", !.id = id, !.path = path,
                            !.status = 200, !.body = CreatedDescriptor(id, path, yolo)]

\* Client.CreateInstance: POST /v1/instances with the descriptor as body.
CreateInstance ==
    \E path \in Paths, dataDir \in DataDirs, debug \in BOOLEAN, yolo \in BOOLEAN,
       outcome \in CreateOutcomes :
        /\ handlePostInstances(path, dataDir, debug, yolo, outcome)
        /\ UNCHANGED nonServerVars

\* ------------------------------------------------------------------------
\* The wire: requests, the route table, JSON bodies
\* ------------------------------------------------------------------------

\* A request body: nothing, a JSON array of strings, or a JSON array of
\* proto.Instance objects (of which only the ids matter).
NoBodySent        == [kind |-> "none", ids |-> {}]
StringsBody(ids)  == [kind |-> "strings", ids |-> ids]
InstancesBody(ids) == [kind |-> "instances", ids |-> ids]

\* json.NewDecoder(r.Body).Decode(&args) with args []proto.Instance: an
\* empty body is io.EOF, a string element cannot be unmarshalled into a
\* proto.Instance, an empty array decodes to no element.
DecodeInstances(body) ==
    CASE body.kind = "none"      -> [ok |-> FALSE, ids |-> {}]
      [] body.kind = "strings"   -> [ok |-> body.ids = {}, ids |-> {}]
      [] body.kind = "instances" -> [ok |-> TRUE, ids |-> body.ids]

\* The per-instance routes of NewServer whose handlers are in the
\* controller: the path below /v1/instances/{id}, and the handler.
InstanceRoutes ==
    { [method |-> "GET",  suffix |-> <<"events">>, handler |-> "handleGetInstanceEvents"],
      [method |-> "GET",  suffix |-> <<"sessions">>, handler |-> "handleGetInstanceSessions"],
      [method |-> "POST", suffix |-> <<"sessions">>, handler |-> "handlePostInstanceSessions"],
      [method |-> "GET",  suffix |-> <<"sessions", "{sid}">>, handler |-> "handleGetInstanceSession"],
      [method |-> "GET",  suffix |-> <<"sessions", "{sid}", "history">>,
          handler |-> "handleGetInstanceSessionHistory"],
      [method |-> "GET",  suffix |-> <<"sessions", "{sid}", "messages">>,
          handler |-> "handleGetInstanceSessionMessages"],
      [method |-> "GET",  suffix |-> <<"lsps">>, handler |-> "handleGetInstanceLSPs"],
      [method |-> "GET",  suffix |-> <<"lsps", "{lsp}", "diagnostics">>,
          handler |-> "handleGetInstanceLSPDiagnostics"],
      [method |-> "GET",  suffix |-> <<"agent">>, handler |-> "handleGetInstanceAgent"],
      [method |-> "POST", suffix |-> <<"agent">>, handler |-> "handlePostInstanceAgent"],
      [method |-> "POST", suffix |-> <<"agent", "init">>, handler |-> "handlePostInstanceAgentInit"],
      [method |-> "POST", suffix |-> <<"agent", "update">>, handler |-> "handlePostInstanceAgentUpdate"],
      [method |-> "POST", suffix |-> <<"agent", "sessions", "{sid}", "cancel">>,
          handler |-> "handlePostInstanceAgentSessionCancel"],
      [method |-> "GET",  suffix |-> <<"agent", "sessions", "{sid}", "prompts", "queued">>,
          handler |-> "handleGetInstanceAgentSessionPromptQueued"],
      [method |-> "POST", suffix |-> <<"agent", "sessions", "{sid}", "prompts", "clear">>,
          handler |-> "handlePostInstanceAgentSessionPromptClear"],
      [method |-> "POST", suffix |-> <<"agent", "sessions", "{sid}", "summarize">>,
          handler |-> "handleGetInstanceAgentSessionSummarize"] }

\* The routes on /v1/instances itself.
CollectionRoutes ==
    { [method |-> "GET",    handler |-> "handleGetInstances"],
      [method |-> "POST",   handler |-> "handlePostInstances"],
      [method |-> "DELETE", handler |-> "handleDeleteInstances"] }

Wildcards == {"{sid}", "{lsp}"}

\* A pattern of the mux matches a path when each segment is equal or the
\* pattern has a wildcard there.
MatchSuffix(pattern, suffix) ==
    /\ Len(pattern) = Len(suffix)
    /\ \A i \in 1..Len(pattern) : pattern[i] \in Wildcards \/ pattern[i] = suffix[i]

\* http.ServeMux: the handler of the pattern matching method and path;
\* "405" when only other methods match the path, "404" when no pattern
\* matches it. id = NoID is the path /v1/instances.
MuxRoute(method, id, suffix) ==
    LET onPath == IF id = NoID
                  THEN IF suffix = <<>> THEN CollectionRoutes ELSE {}
                  ELSE {r \in InstanceRoutes : MatchSuffix(r.suffix, suffix)}
        hit    == {r \in onPath : r.method = method}
    IN  IF onPath = {} THEN "404"
        ELSE IF hit = {} THEN "405"
        ELSE (CHOOSE r \in hit : TRUE).handler

\* The segment a client puts where a pattern has a wildcard.
Fill(pattern) == [i \in 1..Len(pattern) |-> IF pattern[i] \in Wildcards THEN "x" ELSE pattern[i]]

\* ------------------------------------------------------------------------
\* DELETE /v1/instances
\* ------------------------------------------------------------------------

InstancesAfterDelNone(ids) == instances
\* for _, id := range ids { c.instances.Del(id) }
InstancesAfterDel(ids) == [i \in DOMAIN instances \ ids |-> instances[i]]

\* handleDeleteInstances: the ids of the query parameter and of the body.
\* The response is what the handler leaves in last'.status and last'.msg.
handleDeleteInstances(op, named, query, body) ==
    LET args == DecodeInstances(body)
        ids  == (IF query # NoID THEN {query} ELSE {}) \cup args.ids
    IN  IF ~args.ok
        THEN /\ instances' = instances
             /\ last' = [NoLast EXCEPT !.op = op, !.ids = named, !.status = 400,
                            !.msg = "failed to decode request"]
        ELSE /\ instances' = InstancesAfterDel(ids)
             /\ last' = [NoLast EXCEPT !.op = op, !.ids = named, !.status = 200]

\* A request the mux has no handler for changes nothing.
Unrouted(op, named, route) ==
    /\ instances' = instances
    /\ last' = [NoLast EXCEPT !.op = op, !.ids = named,
                   !.status = IF route = "405" THEN 405 ELSE 404,
                   !.msg = "mux"]

\* Client.DeleteInstance(id): DELETE /v1/instances/{id}, no body.
DeleteInstance ==
    \E id \in AllIDs :
        LET route == MuxRoute("DELETE", id, <<>>) IN
        /\ IF route = "handleDeleteInstances"
           THEN handleDeleteInstances("DeleteInstance", {id}, NoID, NoBodySent)
           ELSE Unrouted("DeleteInstance", {id}, route)
        /\ UNCHANGED nonServerVars

\* Client.DeleteInstances(ids): DELETE /v1/instances, body jsonBody(ids),
\* the JSON array of the id strings.
DeleteInstances ==
    \E ids \in SUBSET AllIDs :
        LET route == MuxRoute("DELETE", NoID, <<>>) IN
        /\ IF route = "handleDeleteInstances"
           THEN handleDeleteInstances("DeleteInstances", ids, NoID, StringsBody(ids))
           ELSE Unrouted("DeleteInstances", ids, route)
        /\ UNCHANGED nonServerVars

\* A DELETE /v1/instances request in the form the handler reads: the id
\* query parameter and a JSON array of proto.Instance, from any HTTP client.
DeleteRequest ==
    \E query \in AllIDs \cup {NoID},
       body \in {NoBodySent} \cup {InstancesBody(ids) : ids \in SUBSET AllIDs} :
        /\ handleDeleteInstances("delete", (IF query # NoID THEN {query} ELSE {}) \cup body.ids,
                                 query, body)
        /\ UNCHANGED nonServerVars

\* ------------------------------------------------------------------------
\* Per-instance requests
\* ------------------------------------------------------------------------

LookupAlways(id) == TRUE
\* ins, ok := c.instances.Get(id)
Lookup(id) == id \in DOMAIN instances

\* What a handler answers when its work on the instance fails: the LSP
\* diagnostics handler when the named LSP client is missing, the others
\* when the collaborator returns an error; 0 for a handler with no such path.
FailureStatus(handler) ==
    CASE handler = "handleGetInstanceLSPDiagnostics" -> 404
      [] handler \in {"handlePostInstanceSessions", "handlePostInstanceAgent"} -> 400
      [] handler \in {"handleGetInstanceSessions", "handleGetInstanceSession",
                      "handleGetInstanceSessionHistory", "handleGetInstanceSessionMessages",
                      "handlePostInstanceAgentInit", "handlePostInstanceAgentUpdate",
                      "handleGetInstanceAgentSessionSummarize"} -> 500
      [] OTHER -> 0

\* Every per-instance handler starts with the same lookup and returns
\* "instance not found" before it touches anything.
handleInstance(handler, id, fails) ==
    IF ~Lookup(id)
    THEN /\ fails = FALSE
         /\ instances' = instances
         /\ last' = [NoLast EXCEPT !.op = "instance", !.id = id, !.status = 404,
                        !.msg = "instance not found"]
    ELSE /\ fails => FailureStatus(handler) # 0
         /\ instances' = instances
         /\ last' = [NoLast EXCEPT !.op = "instance", !.id = id, !.acted = TRUE,
                        !.status = IF fails THEN FailureStatus(handler) ELSE 200,
                        !.msg = IF fails THEN "failed" ELSE ""]

\* A client's per-instance request, routed by the mux.
InstanceRequest ==
    \E r \in InstanceRoutes, id \in AllIDs, fails \in BOOLEAN :
        LET route == MuxRoute(r.method, id, Fill(r.suffix)) IN
        /\ IF route \in {"404", "405"}
           THEN /\ fails = FALSE
                /\ Unrouted("unrouted", {}, route)
           ELSE handleInstance(route, id, fails)
        /\ UNCHANGED nonServerVars

ServerInit ==
    /\ instances = <<>>
    /\ last = NoLast

ServerNext ==
    \/ CreateInstance
    \/ DeleteInstance
    \/ DeleteInstances
    \/ DeleteRequest
    \/ InstanceRequest

\* ========================================================================
\* Background process manager
\* ========================================================================

\* The commands Start is given: one a block rule refuses, commands that
\* write `lines` lines to stdout and exit with status 0, and one that writes
\* a line to stdout, a line to stderr and exits with a non-zero status.
Commands ==
    {[blocked |-> TRUE, lines |-> 0, fails |-> FALSE],
     [blocked |-> FALSE, lines |-> 1, fails |-> TRUE]}
    \cup {[blocked |-> FALSE, lines |-> n, fails |-> FALSE] : n \in 1..MaxLines}

\* The first n lines a command writes.
Lines(n) == [i \in 1..n |-> i]

TaskIDs == 1..MaxTasks

\* shell.Exec(ctx, command) returns the captured stdout and stderr and the
\* exit error: a refused command returns a "not allowed" error, a cancelled
\* one what it wrote before it was interrupted.
ExecResult(cmd, produced, interrupted) ==
    [stdout |-> Lines(produced),
     stderr |-> IF ~cmd.blocked /\ ~interrupted /\ cmd.fails THEN <<"e">> ELSE <<>>,
     err    |-> IF cmd.blocked THEN "not allowed"
                ELSE IF interrupted THEN "interrupted"
                ELSE IF cmd.fails THEN "exit" ELSE "nil"]
NoRes == [stdout |-> <<>>, stderr |-> <<>>, err |-> "nil"]

RunnerStepsCloseFirst == <<"exec", "close", "write", "unlock">>
\* The runner goroutine of Start: Exec; then, under bgShell.mu, the writes
\* to the buffers and exitErr; the unlock; and last the deferred
\* close(bgShell.done).
RunnerSteps == <<"exec", "write", "unlock", "close">>

\* The step the runner of b is at; "finished" once the goroutine has ended.
Step(b) == IF b.pc <= Len(RunnerSteps) THEN RunnerSteps[b.pc] ELSE "finished"

NewShell(cmd) ==
    [cmd |-> cmd, pc |-> 1, produced |-> 0, cancelled |-> FALSE, res |-> NoRes,
     stdout |-> <<>>, stderr |-> <<>>, exitErr |-> "nil", locked |-> FALSE,
     doneClosed |-> FALSE]

StartErrorIfBlocked(cmd) == IF cmd.blocked THEN "not allowed" ELSE "nil"
\* return bgShell, nil
StartError(cmd) == "nil"

\* BackgroundShellManager.Start: a fresh id, the shell registered under
\* m.mu, the runner goroutine started, and the return.
Start ==
    \E cmd \in Commands :
        /\ nextId <= MaxTasks
        /\ shells' = shells \cup {nextId}
        /\ bg' = [i \in DOMAIN bg \cup {nextId} |-> IF i = nextId THEN NewShell(cmd) ELSE bg[i]]
        /\ lastStart' = [id |-> nextId, err |-> StartError(cmd)]
        /\ nextId' = nextId + 1
        /\ UNCHANGED <<killWaiting, killOk, lastKill, lastOut, doneOut>>
        /\ UNCHANGED nonShellVars

\* The command, inside Exec, writes its next line.
CommandOutput ==
    \E id \in DOMAIN bg :
        /\ Step(bg[id]) = "exec"
        /\ ~bg[id].cmd.blocked
        /\ bg[id].produced < bg[id].cmd.lines
        /\ bg' = [bg EXCEPT ![id].produced = @ + 1]
        /\ UNCHANGED <<shells, nextId, killWaiting, killOk, lastKill, lastOut, doneOut, lastStart>>
        /\ UNCHANGED nonShellVars

\* Exec returns: the command was refused, ran to its end, or was
\* interrupted because its context is cancelled.
RunnerExec ==
    \E id \in DOMAIN bg, interrupted \in BOOLEAN :
        /\ Step(bg[id]) = "exec"
        /\ IF interrupted THEN bg[id].cancelled /\ ~bg[id].cmd.blocked
           ELSE bg[id].cmd.blocked \/ bg[id].produced = bg[id].cmd.lines
        /\ bg' = [bg EXCEPT ![id].res = ExecResult(bg[id].cmd, bg[id].produced, interrupted),
                            ![id].pc = @ + 1]
        /\ UNCHANGED <<shells, nextId, killWaiting, killOk, lastKill, lastOut, doneOut, lastStart>>
        /\ UNCHANGED nonShellVars

\* bgShell.mu.Lock() and the three writes under it. bytes.Buffer.WriteString
\* appends.
RunnerWrite ==
    \E id \in DOMAIN bg :
        /\ Step(bg[id]) = "write"
        /\ ~bg[id].locked
        /\ bg' = [bg EXCEPT ![id].locked = TRUE,
                            ![id].stdout = @ \o bg[id].res.stdout,
                            ![id].stderr = @ \o bg[id].res.stderr,
                            ![id].exitErr = bg[id].res.err,
                            ![id].pc = @ + 1]
        /\ UNCHANGED <<shells, nextId, killWaiting, killOk, lastKill, lastOut, doneOut, lastStart>>
        /\ UNCHANGED nonShellVars

\* bgShell.mu.Unlock()
RunnerUnlock ==
    \E id \in DOMAIN bg :
        /\ Step(bg[id]) = "unlock"
        /\ bg' = [bg EXCEPT ![id].locked = FALSE, ![id].pc = @ + 1]
        /\ UNCHANGED <<shells, nextId, killWaiting, killOk, lastKill, lastOut, doneOut, lastStart>>
        /\ UNCHANGED nonShellVars

ShellsAfterExitRemoves(id) == shells \ {id}
\* The registry once the runner of id has ended: the runner goroutine has
\* no statement on m.shells.
ShellsAfterExit(id) == shells

\* defer close(bgShell.done)
RunnerClose ==
    \E id \in DOMAIN bg :
        /\ Step(bg[id]) = "close"
        /\ bg' = [bg EXCEPT ![id].doneClosed = TRUE, ![id].pc = @ + 1]
        /\ shells' = ShellsAfterExit(id)
        /\ UNCHANGED <<nextId, killWaiting, killOk, lastKill, lastOut, doneOut, lastStart>>
        /\ UNCHANGED nonShellVars

\* The context passed to Start is cancelled: shellCtx derives from it.
ParentCancel ==
    \E id \in DOMAIN bg :
        /\ ~bg[id].cancelled
        /\ bg' = [bg EXCEPT ![id].cancelled = TRUE]
        /\ UNCHANGED <<shells, nextId, killWaiting, killOk, lastKill, lastOut, doneOut, lastStart>>
        /\ UNCHANGED nonShellVars

\* BackgroundShellManager.List and Get: reads of the map under m.mu.RLock.
List == shells
Get(id) == id \in shells

\* IsDone: whether bs.done is closed.
IsDone(b) == b.doneClosed

GetOutputResultErrAlways(b) ==
    [stdout |-> b.stdout, stderr |-> b.stderr, done |-> b.doneClosed, err |-> b.exitErr]
\* The select of GetOutput: done closed returns the buffers, true and
\* exitErr; otherwise the buffers, false and nil.
GetOutputResult(b) ==
    IF b.doneClosed
    THEN [stdout |-> b.stdout, stderr |-> b.stderr, done |-> TRUE, err |-> b.exitErr]
    ELSE [stdout |-> b.stdout, stderr |-> b.stderr, done |-> FALSE, err |-> "nil"]

NoOut     == [stdout |-> <<>>, stderr |-> <<>>, done |-> FALSE, err |-> "nil"]
NoLastOut == [id |-> 0, out |-> NoOut, step |-> "none", produced |-> 0]
NoDoneOut == [reads |-> 0, out |-> NoOut]

\* BackgroundShell.GetOutput, on a shell the caller got from Start or Get:
\* bs.mu.RLock() waits only while the runner holds bs.mu. lastOut keeps the
\* result with the runner's step and the lines written at the time of the
\* call; doneOut the first result with done = true and whether more followed.
GetOutput ==
    \E id \in DOMAIN bg :
        LET out == GetOutputResult(bg[id]) IN
        /\ ~bg[id].locked
        /\ lastOut' = [id |-> id, out |-> out, step |-> Step(bg[id]),
                       produced |-> bg[id].produced]
        /\ doneOut' = IF ~out.done THEN doneOut
                      ELSE IF doneOut[id].reads = 0
                           THEN [doneOut EXCEPT ![id] = [reads |-> 1, out |-> out]]
                           ELSE [doneOut EXCEPT ![id].reads = 2]
        /\ UNCHANGED <<shells, bg, nextId, killWaiting, killOk, lastKill, lastStart>>
        /\ UNCHANGED nonShellVars

ShellsAfterKillNoDelete(id) == shells
\* delete(m.shells, id)
ShellsAfterKill(id) == shells \ {id}

KillMayReturnAtOnce(b) == TRUE
\* <-shell.done
KillMayReturn(b) == b.doneClosed

NoKill == [id |-> 0, err |-> "none"]

\* Kill up to its wait: under m.mu the lookup, the "not found" return or the
\* delete; then shell.cancel().
KillBegin ==
    \E id \in TaskIDs :
        /\ IF id \notin shells
           THEN /\ lastKill' = [id |-> id, err |-> "not found"]
                /\ UNCHANGED <<shells, bg, killWaiting>>
           ELSE /\ shells' = ShellsAfterKill(id)
                /\ bg' = [bg EXCEPT ![id].cancelled = TRUE]
                /\ killWaiting' = [killWaiting EXCEPT ![id] = @ + 1]
                /\ lastKill' = [id |-> id, err |-> "found"]
        /\ UNCHANGED <<nextId, killOk, lastOut, doneOut, lastStart>>
        /\ UNCHANGED nonShellVars

\* Kill from its wait on: <-shell.done; return nil.
KillReturn ==
    \E id \in DOMAIN bg :
        /\ killWaiting[id] > 0
        /\ KillMayReturn(bg[id])
        /\ killWaiting' = [killWaiting EXCEPT ![id] = @ - 1]
        /\ killOk' = [killOk EXCEPT ![id] = @ + 1]
        /\ UNCHANGED <<shells, bg, nextId, lastKill, lastOut, doneOut, lastStart>>
        /\ UNCHANGED nonShellVars

ShellInit ==
    /\ shells = {}
    /\ bg = <<>>
    /\ nextId = 1
    /\ killWaiting = [id \in TaskIDs |-> 0]
    /\ killOk = [id \in TaskIDs |-> 0]
    /\ lastKill = NoKill
    /\ lastOut = NoLastOut
    /\ doneOut = [id \in TaskIDs |-> NoDoneOut]
    /\ lastStart = [id |-> 0, err |-> "nil"]

ShellNext ==
    \/ Start
    \/ CommandOutput
    \/ RunnerExec
    \/ RunnerWrite
    \/ RunnerUnlock
    \/ RunnerClose
    \/ ParentCancel
    \/ GetOutput
    \/ KillBegin
    \/ KillReturn

\* ========================================================================
\* MCP tool-client orchestrator
\* ========================================================================

\* The configured providers (the keys of cfg.MCP) and the tools each one
\* lists.
Names == {"A", "B"}
ToolsOf(name) == IF name = "A" THEN {"a1"} ELSE {"b1", "b2"}

\* The calls of runTool the agent makes; each is one tool invocation.
Callers == {"t1", "t2"}

\* McpTool.Name: the key of a tool in the aggregate map.
ToolName(name, tool) == <<"mcp", name, tool>>

\* A connection handle (*client.Client), told apart by the provider it
\* connects to and by the goroutine or call that created it.
Handle(name, by) == [name |-> name, by |-> by]
NoHandle == Handle("", "")

\* MCPClientInfo, without the time stamp.
MCPClientInfo(name, state, err, client, toolCount) ==
    [Name |-> name, State |-> state, Error |-> err, Client |-> client,
     ToolCount |-> toolCount]

\* csync.Map.Set and csync.Map.Del.
MapSet(m, k, v) == [x \in DOMAIN m \cup {k} |-> IF x = k THEN v ELSE m[x]]
MapDel(m, k)    == [x \in DOMAIN m \ {k} |-> m[x]]

\* updateMcpTools: the per-provider map after the call ...
Client2ToolsAfter(name, tools) ==
    IF tools = {} THEN MapDel(mcpClient2Tools, name)
    ELSE MapSet(mcpClient2Tools, name, tools)

\* ... and the aggregate map, into which every tool of the per-provider map
\* is set again; nothing is ever deleted from it.
ToolsAfter(name, tools) ==
    LET c2t == Client2ToolsAfter(name, tools) IN
    mcpTools \cup UNION {{ToolName(n, t) : t \in c2t[n]} : n \in DOMAIN c2t}

\* MCPEventType.
MCPEventStateChanged == "state_changed"
MCPEventToolsListChanged == "tools_list_changed"
MCPEventTypes == {MCPEventStateChanged, MCPEventToolsListChanged}

\* mcpBroker.Publish(pubsub.UpdatedEvent, MCPEvent{Type: type, Name: name}):
\* one more event of that type for that provider.
PublishedAfter(name, type) == [mcpPublished EXCEPT ![name][type] = @ + 1]

\* A call of updateMCPState in progress: its arguments and its next step.
\* Into `error` it runs updateMcpTools(name, nil), then mcpClients.Del(name),
\* then mcpStates.Set; into any other state it runs mcpStates.Set only.
NoUpd == [step |-> "none", state |-> "", err |-> "nil", client |-> NoHandle, count |-> 0]
FirstStep(state) == IF state = "error" THEN "tools" ELSE "state"
updateMCPState(t, state, err, client, count, ret) ==
    [t EXCEPT !.upd = [step |-> FirstStep(state), state |-> state, err |-> err,
                       client |-> client, count |-> count],
              !.pc = "update", !.ret = ret]

\* A goroutine or call that has not started.
IdleThread ==
    [pc |-> "idle", name |-> "", c |-> NoHandle, tools |-> {}, err |-> "nil",
     count |-> 0, upd |-> NoUpd, ret |-> "", panicked |-> FALSE, result |-> "none"]

\* What createAndInitializeClient can come to: the client cannot be created
\* from the config, c.Start fails, the c.Initialize handshake fails, all of
\* it succeeds, or the client library panics.
ConnectOutcomes == {"create", "start", "init", "ok", "panic"}

\* createAndInitializeClient, as run by thread `by` with locals t: on
\* success the new handle is kept and the thread goes on at okpc, on failure
\* the state goes to `error` and the thread goes on at failpc.
createAndInitializeClientKeepsErr(t, by, o, okpc, failpc) ==
    IF o = "ok"
    THEN [t EXCEPT !.c = Handle(t.name, by), !.pc = okpc]
    ELSE updateMCPState([t EXCEPT !.c = NoHandle], "error", o, NoHandle, 0, failpc)
createAndInitializeClient(t, by, o, okpc, failpc) ==
    IF o = "ok"
    THEN [t EXCEPT !.c = Handle(t.name, by), !.pc = okpc]
    ELSE updateMCPState([t EXCEPT !.err = o, !.c = NoHandle], "error", o, NoHandle, 0, failpc)

\* recover() in the deferred function of the init goroutine.
RecoversNothing == FALSE
Recovers == TRUE

\* doGetMCPTools, loop body: record the provider as disabled, or as starting
\* and start its goroutine.
MCPVisit ==
    \E n \in Names \ mcpMain.visited :
        /\ ~mcpCrashed
        /\ ~mcpMain.returned
        /\ IF mcpCfg[n].Disabled
           THEN /\ mcpStates' = MapSet(mcpStates, n, MCPClientInfo(n, "disabled", "nil", NoHandle, 0))
                /\ mcpMain' = [mcpMain EXCEPT !.visited = @ \cup {n}]
                /\ UNCHANGED mcpThreads
           ELSE /\ mcpStates' = MapSet(mcpStates, n, MCPClientInfo(n, "starting", "nil", NoHandle, 0))
                /\ mcpMain' = [mcpMain EXCEPT !.visited = @ \cup {n}, !.wg = @ + 1]
                /\ mcpThreads' = [mcpThreads EXCEPT ![n] = [IdleThread EXCEPT !.pc = "connect", !.name = n]]
        /\ UNCHANGED <<mcpCfg, mcpTools, mcpClient2Tools, mcpClients, mcpClosed, mcpCrashed,
                       mcpPublished, mcpNotified>>
        /\ UNCHANGED nonMCPVars

\* doGetMCPTools: wg.Wait() and return.
MCPReturn ==
    /\ ~mcpCrashed
    /\ ~mcpMain.returned
    /\ mcpMain.visited = Names
    /\ mcpMain.wg = 0
    /\ mcpMain' = [mcpMain EXCEPT !.returned = TRUE]
    /\ UNCHANGED <<mcpCfg, mcpTools, mcpClient2Tools, mcpClients, mcpStates, mcpThreads,
                   mcpClosed, mcpCrashed, mcpPublished, mcpNotified>>
    /\ UNCHANGED nonMCPVars

\* init goroutine: createAndInitializeClient.
InitConnect ==
    \E n \in Names, o \in ConnectOutcomes :
        /\ ~mcpCrashed
        /\ mcpThreads[n].pc = "connect"
        /\ mcpThreads' = [mcpThreads EXCEPT ![n] =
               IF o = "panic"
               THEN [@ EXCEPT !.panicked = TRUE, !.err = "panic", !.pc = "deferred"]
               ELSE createAndInitializeClient(@, n, o, "set", "deferred")]
        /\ UNCHANGED <<mcpCfg, mcpTools, mcpClient2Tools, mcpClients, mcpStates, mcpMain,
                       mcpClosed, mcpCrashed, mcpPublished, mcpNotified>>
        /\ UNCHANGED nonMCPVars

\* init goroutine: mcpClients.Set(name, c).
InitSetClient ==
    \E n \in Names :
        /\ ~mcpCrashed
        /\ mcpThreads[n].pc = "set"
        /\ mcpClients' = MapSet(mcpClients, n, mcpThreads[n].c)
        /\ mcpThreads' = [mcpThreads EXCEPT ![n].pc = "getTools"]
        /\ UNCHANGED <<mcpCfg, mcpTools, mcpClient2Tools, mcpStates, mcpMain, mcpClosed, mcpCrashed,
                       mcpPublished, mcpNotified>>
        /\ UNCHANGED nonMCPVars

\* init goroutine: getTools up to the return of c.ListTools. A failure
\* goes to `error`, after which getTools closes the handle and returns nil.
InitGetTools ==
    \E n \in Names, o \in {"ok", "list", "panic"} :
        /\ ~mcpCrashed
        /\ mcpThreads[n].pc = "getTools"
        /\ mcpThreads' = [mcpThreads EXCEPT ![n] =
               CASE o = "ok"    -> [@ EXCEPT !.tools = ToolsOf(n), !.pc = "publish"]
                 [] o = "list"  -> updateMCPState([@ EXCEPT !.err = "list"], "error", "list", NoHandle, 0, "close")
                 [] o = "panic" -> [@ EXCEPT !.panicked = TRUE, !.err = "panic", !.pc = "deferred"]]
        /\ UNCHANGED <<mcpCfg, mcpTools, mcpClient2Tools, mcpClients, mcpStates, mcpMain,
                       mcpClosed, mcpCrashed, mcpPublished, mcpNotified>>
        /\ UNCHANGED nonMCPVars

\* init goroutine: getTools, c.Close() after the failed listing.
InitClose ==
    \E n \in Names :
        /\ ~mcpCrashed
        /\ mcpThreads[n].pc = "close"
        /\ mcpClosed' = mcpClosed \cup {mcpThreads[n].c}
        /\ mcpThreads' = [mcpThreads EXCEPT ![n].pc = "publish"]
        /\ UNCHANGED <<mcpCfg, mcpTools, mcpClient2Tools, mcpClients, mcpStates, mcpMain, mcpCrashed,
                       mcpPublished, mcpNotified>>
        /\ UNCHANGED nonMCPVars

\* init goroutine: result.Append(tools...), updateMcpTools(name, tools) and
\* the call of updateMCPState(name, MCPStateConnected, nil, c, len(tools)).
InitPublish ==
    \E n \in Names :
        LET t == mcpThreads[n] IN
        /\ ~mcpCrashed
        /\ t.pc = "publish"
        /\ mcpMain' = [mcpMain EXCEPT !.result = @ \cup {ToolName(n, x) : x \in t.tools}]
        /\ mcpClient2Tools' = Client2ToolsAfter(n, t.tools)
        /\ mcpTools' = ToolsAfter(n, t.tools)
        /\ mcpThreads' = [mcpThreads EXCEPT ![n] =
               updateMCPState(t, "connected", "nil", t.c, Cardinality(t.tools), "deferred")]
        /\ UNCHANGED <<mcpCfg, mcpClients, mcpStates, mcpClosed, mcpCrashed,
                       mcpPublished, mcpNotified>>
        /\ UNCHANGED nonMCPVars

\* init goroutine, deferred function: wg.Done(), then recover(); a
\* recovered panic goes to `error`.
InitDeferred ==
    \E n \in Names :
        LET t == mcpThreads[n] IN
        /\ ~mcpCrashed
        /\ t.pc = "deferred"
        /\ mcpMain' = [mcpMain EXCEPT !.wg = @ - 1]
        /\ IF ~t.panicked
           THEN /\ mcpThreads' = [mcpThreads EXCEPT ![n].pc = "end",
                                     ![n].result = IF t.err = "nil" THEN "ok" ELSE "failed"]
                /\ UNCHANGED mcpCrashed
           ELSE IF Recovers
           THEN /\ mcpThreads' = [mcpThreads EXCEPT ![n] =
                       updateMCPState([t EXCEPT !.result = "panicked"], "error", "panic", NoHandle, 0, "end")]
                /\ UNCHANGED mcpCrashed
           ELSE /\ mcpCrashed' = TRUE
                /\ UNCHANGED mcpThreads
        /\ UNCHANGED <<mcpCfg, mcpTools, mcpClient2Tools, mcpClients, mcpStates, mcpClosed,
                       mcpPublished, mcpNotified>>
        /\ UNCHANGED nonMCPVars

\* updateMCPState into `error`: updateMcpTools(name, nil).
UpdateClearTools ==
    \E w \in Names \cup Callers :
        LET t == mcpThreads[w] IN
        /\ ~mcpCrashed
        /\ t.pc = "update" /\ t.upd.step = "tools"
        /\ mcpClient2Tools' = Client2ToolsAfter(t.name, {})
        /\ mcpTools' = ToolsAfter(t.name, {})
        /\ mcpThreads' = [mcpThreads EXCEPT ![w].upd.step = "client"]
        /\ UNCHANGED <<mcpCfg, mcpClients, mcpStates, mcpMain, mcpClosed, mcpCrashed,
                       mcpPublished, mcpNotified>>
        /\ UNCHANGED nonMCPVars

\* updateMCPState into `error`: mcpClients.Del(name).
UpdateDelClient ==
    \E w \in Names \cup Callers :
        LET t == mcpThreads[w] IN
        /\ ~mcpCrashed
        /\ t.pc = "update" /\ t.upd.step = "client"
        /\ mcpClients' = MapDel(mcpClients, t.name)
        /\ mcpThreads' = [mcpThreads EXCEPT ![w].upd.step = "state"]
        /\ UNCHANGED <<mcpCfg, mcpTools, mcpClient2Tools, mcpStates, mcpMain, mcpClosed, mcpCrashed,
                       mcpPublished, mcpNotified>>
        /\ UNCHANGED nonMCPVars

\* updateMCPState: mcpStates.Set(name, info), the state_changed event, and
\* the return to the caller.
UpdateSetState ==
    \E w \in Names \cup Callers :
        LET t == mcpThreads[w] IN
        /\ ~mcpCrashed
        /\ t.pc = "update" /\ t.upd.step = "state"
        /\ mcpStates' = MapSet(mcpStates, t.name,
               MCPClientInfo(t.name, t.upd.state, t.upd.err, t.upd.client, t.upd.count))
        /\ mcpPublished' = PublishedAfter(t.name, MCPEventStateChanged)
        /\ mcpThreads' = [mcpThreads EXCEPT ![w].upd = NoUpd, ![w].pc = t.ret, ![w].ret = ""]
        /\ UNCHANGED <<mcpCfg, mcpTools, mcpClient2Tools, mcpClients, mcpMain, mcpClosed, mcpCrashed,
                       mcpNotified>>
        /\ UNCHANGED nonMCPVars

\* The agent calls a tool it finds in the aggregate map: McpTool.Run,
\* runTool. Tools are handed to the agent once doGetMCPTools has returned.
RunTool ==
    \E w \in Callers, n \in Names :
        /\ ~mcpCrashed
        /\ mcpThreads[w].pc = "idle"
        /\ mcpMain.returned
        /\ \E x \in ToolsOf(n) : ToolName(n, x) \in mcpTools
        /\ mcpThreads' = [mcpThreads EXCEPT ![w] = [IdleThread EXCEPT !.pc = "get", !.name = n]]
        /\ UNCHANGED <<mcpCfg, mcpTools, mcpClient2Tools, mcpClients, mcpStates, mcpMain,
                       mcpClosed, mcpCrashed, mcpPublished, mcpNotified>>
        /\ UNCHANGED nonMCPVars

\* getOrRenewClient: mcpClients.Get(name); without a handle the call fails
\* with "mcp '<name>' not available".
RenewGet ==
    \E w \in Callers :
        LET t == mcpThreads[w] IN
        /\ ~mcpCrashed
        /\ t.pc = "get"
        /\ mcpThreads' = [mcpThreads EXCEPT ![w] =
               IF t.name \in DOMAIN mcpClients
               THEN [t EXCEPT !.c = mcpClients[t.name], !.pc = "ping"]
               ELSE [t EXCEPT !.err = "not available", !.result = "failed", !.pc = "end"]]
        /\ UNCHANGED <<mcpCfg, mcpTools, mcpClient2Tools, mcpClients, mcpStates, mcpMain,
                       mcpClosed, mcpCrashed, mcpPublished, mcpNotified>>
        /\ UNCHANGED nonMCPVars

\* getOrRenewClient: mcpStates.Get(name) and c.Ping. A healthy handle is
\* returned and runTool calls the tool on it; a failed probe goes to `error`
\* with the tool count just read. A closed handle cannot answer.
RenewPing ==
    \E w \in Callers, ok \in BOOLEAN :
        LET t == mcpThreads[w]
            count == mcpStates[t.name].ToolCount
        IN
        /\ ~mcpCrashed
        /\ t.pc = "ping"
        /\ ok => t.c \notin mcpClosed
        /\ mcpThreads' = [mcpThreads EXCEPT ![w] =
               IF ok
               THEN [t EXCEPT !.count = count, !.result = "called", !.pc = "end"]
               ELSE updateMCPState([t EXCEPT !.count = count, !.err = "ping"],
                                   "error", "ping", NoHandle, count, "reconnect")]
        /\ UNCHANGED <<mcpCfg, mcpTools, mcpClient2Tools, mcpClients, mcpStates, mcpMain,
                       mcpClosed, mcpCrashed, mcpPublished, mcpNotified>>
        /\ UNCHANGED nonMCPVars

\* getOrRenewClient: createAndInitializeClient after the failed probe; on
\* success updateMCPState(name, MCPStateConnected, nil, c, state.ToolCount)
\* is called, on failure the error of the attempt is returned.
RenewConnect ==
    \E w \in Callers, o \in ConnectOutcomes \ {"panic"} :
        LET t == mcpThreads[w] IN
        /\ ~mcpCrashed
        /\ t.pc = "reconnect"
        /\ mcpThreads' = [mcpThreads EXCEPT ![w] =
               IF o = "ok"
               THEN updateMCPState([t EXCEPT !.c = Handle(t.name, w)],
                                   "connected", "nil", Handle(t.name, w), t.count, "renewed")
               ELSE [createAndInitializeClient(t, w, o, "", "end") EXCEPT !.result = "failed"]]
        /\ UNCHANGED <<mcpCfg, mcpTools, mcpClient2Tools, mcpClients, mcpStates, mcpMain,
                       mcpClosed, mcpCrashed, mcpPublished, mcpNotified>>
        /\ UNCHANGED nonMCPVars

\* getOrRenewClient: mcpClients.Set(name, c) and return c; runTool calls the
\* tool on it.
RenewSetClient ==
    \E w \in Callers :
        LET t == mcpThreads[w] IN
        /\ ~mcpCrashed
        /\ t.pc = "renewed"
        /\ mcpClients' = MapSet(mcpClients, t.name, t.c)
        /\ mcpThreads' = [mcpThreads EXCEPT ![w].pc = "end", ![w].err = "nil", ![w].result = "called"]
        /\ UNCHANGED <<mcpCfg, mcpTools, mcpClient2Tools, mcpStates, mcpMain, mcpClosed, mcpCrashed,
                       mcpPublished, mcpNotified>>
        /\ UNCHANGED nonMCPVars

\* The methods of the notifications a provider sends.
Methods == {"notifications/tools/list_changed", "notifications/message"}

\* The handles of provider n that can deliver a notification: created,
\* started and not closed.
LiveHandles(n) ==
    {h \in {mcpThreads[w].c : w \in Names \cup Callers}
            \cup {mcpClients[x] : x \in DOMAIN mcpClients} :
        h.name = n /\ h \notin mcpClosed}

\* The aggregate tool map after the notification handler has run: the
\* handler fetches nothing.
ToolsAfterNotificationRefetched(n, method) ==
    IF method = "notifications/tools/list_changed" THEN ToolsAfter(n, ToolsOf(n)) ELSE mcpTools
ToolsAfterNotification(n, method) == mcpTools

\* The function given to c.OnNotification: tools/list_changed publishes the
\* tools_list_changed event, any other method is logged only.
OnNotification ==
    \E n \in Names, method \in Methods :
        /\ ~mcpCrashed
        /\ LiveHandles(n) # {}
        /\ mcpNotified[n].count < MaxNotifications
        /\ mcpNotified' = [mcpNotified EXCEPT ![n] = [count |-> @.count + 1, method |-> method]]
        /\ mcpPublished' = IF method = "notifications/tools/list_changed"
                           THEN PublishedAfter(n, MCPEventToolsListChanged)
                           ELSE mcpPublished
        /\ mcpTools' = ToolsAfterNotification(n, method)
        /\ UNCHANGED <<mcpCfg, mcpClient2Tools, mcpClients, mcpStates, mcpThreads, mcpMain,
                       mcpClosed, mcpCrashed>>
        /\ UNCHANGED nonMCPVars

\* The configurations: every provider enabled, or B disabled.
MCPConfig(disabled) == [n \in Names |-> [Disabled |-> n \in disabled]]
MCPConfigs == {MCPConfig({}), MCPConfig({"B"})}

\* Before doGetMCPTools is called.
MCPStart ==
    /\ mcpTools = {}
    /\ mcpClient2Tools = <<>>
    /\ mcpClients = <<>>
    /\ mcpStates = <<>>
    /\ mcpThreads = [w \in Names \cup Callers |-> IdleThread]
    /\ mcpMain = [visited |-> {}, wg |-> 0, result |-> {}, returned |-> FALSE]
    /\ mcpClosed = {}
    /\ mcpCrashed = FALSE
    /\ mcpPublished = [n \in Names |-> [e \in MCPEventTypes |-> 0]]
    /\ mcpNotified = [n \in Names |-> [count |-> 0, method |-> ""]]

MCPInit == mcpCfg \in MCPConfigs /\ MCPStart

\* The orchestrator as it is while another component is looked at.
MCPIdle == mcpCfg = MCPConfig({}) /\ MCPStart

MCPNext ==
    \/ MCPVisit
    \/ MCPReturn
    \/ InitConnect
    \/ InitSetClient
    \/ InitGetTools
    \/ InitClose
    \/ InitPublish
    \/ InitDeferred
    \/ UpdateClearTools
    \/ UpdateDelClient
    \/ UpdateSetState
    \/ RunTool
    \/ RenewGet
    \/ RenewPing
    \/ RenewConnect
    \/ RenewSetClient
    \/ OnNotification

\* ========================================================================
\* Hook executor
\* ========================================================================

\* Strings the matcher looks into are sequences of characters.
Str_empty     == <<>>
Str_star      == <<"*">>
Str_space     == <<" ">>
Str_pipe      == <<"|">>
Str_edit      == <<"e", "d", "i", "t">>
Str_Edit      == <<"E", "d", "i", "t">>
Str_write     == <<"w", "r", "i", "t", "e">>
Str_multiedit == <<"m", "u", "l", "t", "i">> \o Str_edit
Str_bash      == <<"b", "a", "s", "h">>

\* config.HookEventType
PreToolUse          == "pre_tool_use"
PostToolUse         == "post_tool_use"
UserPromptSubmit    == "user_prompt_submit"
Stop                == "stop"
SubagentStop        == "subagent_stop"
PreCompact          == "pre_compact"
PermissionRequested == "permission_requested"
HookEventTypes == {PreToolUse, PostToolUse, UserPromptSubmit, Stop, SubagentStop,
                   PreCompact, PermissionRequested}

\* strings.TrimSpace
RECURSIVE TrimLeft(_)
TrimLeft(s) == IF s # <<>> /\ Head(s) = " " THEN TrimLeft(Tail(s)) ELSE s
RECURSIVE TrimRight(_)
TrimRight(s) ==
    IF s # <<>> /\ s[Len(s)] = " " THEN TrimRight(SubSeq(s, 1, Len(s) - 1)) ELSE s
TrimSpaceNone(s) == s
TrimSpace(s) == TrimRight(TrimLeft(s))

\* strings.Contains(pattern, "|")
ContainsPipe(s) == \E i \in 1..Len(s) : s[i] = "|"

\* strings.SplitSeq(pattern, "|"): the fields between the pipes.
RECURSIVE SplitAcc(_, _, _)
SplitAcc(rest, cur, acc) ==
    IF rest = <<>> THEN Append(acc, cur)
    ELSE IF Head(rest) = "|" THEN SplitAcc(Tail(rest), <<>>, Append(acc, cur))
    ELSE SplitAcc(Tail(rest), Append(cur, Head(rest)), acc)
SplitSeq(s) == SplitAcc(s, <<>>, <<>>)

\* The trimmed alternatives of a pattern.
Alternatives(pattern) ==
    {TrimSpace(SplitSeq(pattern)[i]) : i \in 1..Len(SplitSeq(pattern))}

\* matchesToolName
matchesToolName(pattern, toolName) ==
    IF pattern = Str_empty \/ pattern = Str_star THEN TRUE
    ELSE IF pattern = toolName THEN TRUE
    ELSE IF ~ContainsPipe(pattern) THEN FALSE
    ELSE toolName \in Alternatives(pattern)

\* Executor.matcherApplies
matcherAppliesAsToolEvent(matcher, ctx) == matchesToolName(matcher.Matcher, ctx.ToolName)
matcherApplies(matcher, ctx) ==
    IF matcher.Matcher = Str_empty \/ matcher.Matcher = Str_star THEN TRUE
    ELSE IF ctx.EventType = PreToolUse \/ ctx.EventType = PostToolUse
    THEN matchesToolName(matcher.Matcher, ctx.ToolName)
    ELSE matcher.Matcher = Str_empty \/ matcher.Matcher = Str_star

\* ------------------------------------------------------------------------
\* matcherApplies on its own: the inputs are drawn in MatchInit.
\* ------------------------------------------------------------------------

\* The matcher strings of the configuration and the tool names of contexts.
Matchers ==
    {Str_empty, Str_star, Str_edit, Str_bash,
     Str_edit \o Str_pipe \o Str_write \o Str_pipe \o Str_multiedit,
     Str_edit \o Str_space \o Str_pipe \o Str_space \o Str_write,
     Str_space \o Str_edit,
     Str_edit \o Str_pipe,
     Str_edit \o Str_pipe \o Str_star,
     Str_space \o Str_star \o Str_space}
MatchToolNames ==
    {Str_empty, Str_star, Str_edit, Str_write, Str_multiedit, Str_bash, Str_Edit,
     Str_space \o Str_write,
     Str_edit \o Str_pipe \o Str_write \o Str_pipe \o Str_multiedit,
     Str_edit \o Str_space \o Str_pipe \o Str_space \o Str_write}

NoMatchResult == [done |-> FALSE, applies |-> FALSE]

MatchInit ==
    /\ matchArgs \in [matcher : [Matcher : Matchers],
                      ctx : [EventType : HookEventTypes, ToolName : MatchToolNames]]
    /\ matchResult = NoMatchResult

\* No call of matcherApplies is looked at.
MatchIdle ==
    /\ matchArgs = [matcher |-> [Matcher |-> Str_empty],
                    ctx |-> [EventType |-> Stop, ToolName |-> Str_empty]]
    /\ matchResult = NoMatchResult

\* e.matcherApplies(matcher, hookCtx)
MatcherApplies ==
    /\ matchResult = NoMatchResult
    /\ matchResult' = [done |-> TRUE, applies |-> matcherApplies(matchArgs.matcher, matchArgs.ctx)]
    /\ UNCHANGED matchArgs
    /\ UNCHANGED nonMatchVars

MatchNext ==
    \/ MatcherApplies

\* ------------------------------------------------------------------------
\* Execute
\* ------------------------------------------------------------------------

DefaultHookTimeout == 30

\* config.Hook; Timeout is a pointer: <<>> is nil, <<n>> points to n.
Hook(type, command, timeout) == [Type |-> type, Command |-> command, Timeout |-> timeout]
\* config.HookMatcher
HookMatcher(matcher, hooks) == [Matcher |-> matcher, Hooks |-> hooks]

\* The configurations of the executor: none; one post_tool_use hook under
\* "*"; and one with several matchers and hooks, an empty hook list, an
\* unsupported hook type and timeouts below and above the documented maximum.
HookConfigNone == <<>>
HookConfigOne ==
    [e \in {PostToolUse} |->
        <<HookMatcher(Str_star, <<Hook("command", "log", <<>>)>>)>>]
HookConfigFull ==
    [e \in {PostToolUse, Stop} |->
        IF e = PostToolUse
        THEN <<HookMatcher(Str_edit \o Str_pipe \o Str_multiedit,
                   <<Hook("command", "h1", <<>>), Hook("command", "h2", <<5>>)>>),
               HookMatcher(Str_bash, <<>>),
               HookMatcher(Str_star, <<Hook("command", "h3", <<600>>)>>)>>
        ELSE <<HookMatcher(Str_edit, <<Hook("command", "h4", <<>>)>>),
               HookMatcher(Str_empty, <<Hook("command", "h5", <<300>>), Hook("script", "h6", <<>>)>>)>>]
HookConfigs == {HookConfigNone, HookConfigOne, HookConfigFull}

\* The contexts Execute is called with: event type, tool name, session id.
HookContext(event, tool, session) == [EventType |-> event, ToolName |-> tool, SessionID |-> session]
HookContexts ==
    {HookContext(PostToolUse, Str_edit, "s1"),
     HookContext(PostToolUse, Str_write, "s1"),
     HookContext(PostToolUse, Str_bash, ""),
     HookContext(Stop, Str_empty, "")}

\* The number of Execute calls made on one executor, and the calls among
\* them whose context the caller may cancel while they run.
MaxExec == 3
CancellableCalls == {1}

\* e.config[hookCtx.EventType]
MatchersFor(event) == IF event \in DOMAIN hookCfg THEN hookCfg[event] ELSE <<>>

\* executeHook: the timeout the command runs under, in seconds.
HookTimeout(hook) ==
    IF hook.Timeout = <<>> THEN DefaultHookTimeout ELSE hook.Timeout[1]

\* executeHook: the variables set in the shell's environment before the
\* command runs; the session id and the tool name only when not empty.
EnvAfter(env, ctx) ==
    LET e1 == MapSet(env, "CRUSH_HOOK_EVENT", <<ctx.EventType>>)
        e2 == MapSet(e1, "CRUSH_HOOK_CONTEXT", <<ctx>>)
        e3 == IF ctx.SessionID # "" THEN MapSet(e2, "CRUSH_SESSION_ID", <<ctx.SessionID>>) ELSE e2
    IN  IF ctx.ToolName # Str_empty THEN MapSet(e3, "CRUSH_TOOL_NAME", ctx.ToolName) ELSE e3

\* Shell.ExecWithStdin: how a hook command can end. It exits with status 0,
\* exits with another status or outlives its timeout; under a context that
\* the caller has cancelled it is interrupted and the context's error comes
\* back.
HookOutcomes(cancelled) == IF cancelled THEN {"canceled"} ELSE {"ok", "exit", "timeout"}

NoHookCall ==
    [active |-> FALSE, id |-> 0, ctx |-> HookContext("", Str_empty, ""), mi |-> 0, hi |-> 0,
     running |-> FALSE, cancelled |-> FALSE]

\* The position after matcher mi is done with.
NextMatcherSkipsOne(c) == [c EXCEPT !.mi = c.mi + 2, !.hi = 0]
NextMatcher(c) == [c EXCEPT !.mi = c.mi + 1, !.hi = 0]

\* The position after a hook of matcher mi has run without error: the next
\* hook of the matcher, or the next matcher.
AfterHookRepeat(c, ms) == [c EXCEPT !.running = FALSE]
AfterHook(c, ms) ==
    IF c.hi < Len(ms[c.mi].Hooks)
    THEN [c EXCEPT !.hi = c.hi + 1, !.running = FALSE]
    ELSE [NextMatcher(c) EXCEPT !.running = FALSE]

\* executeHook returned an error: the command did not end with status 0.
FailedNever(o) == FALSE
Failed(o) == o # "ok"

\* The error Execute returns: its kind and the hook it came from.
HookErr(kind, mi, hi) == [kind |-> kind, mi |-> mi, hi |-> hi]
NoHookErr == HookErr("nil", 0, 0)

\* Execute returns err: the call is recorded and the executor is free again.
ReturnFrom(c, err) ==
    /\ hookCalls' = [hookCalls EXCEPT ![c.id].err = err, ![c.id].returned = TRUE]
    /\ hookCall' = NoHookCall

\* ctx.Err() != nil at the head of the loop over the matchers.
CtxErrIgnored(c) == FALSE
CtxErr(c) == c.cancelled

\* Execute, up to the loop over the matchers: nothing to do without
\* matchers for the event type.
Execute ==
    \E ctx \in HookContexts :
        LET id == Len(hookCalls) + 1 IN
        /\ ~hookCall.active
        /\ Len(hookCalls) < MaxExec
        /\ IF MatchersFor(ctx.EventType) = <<>>
           THEN /\ hookCalls' = Append(hookCalls, [ctx |-> ctx, err |-> NoHookErr, returned |-> TRUE])
                /\ UNCHANGED hookCall
           ELSE /\ hookCalls' = Append(hookCalls, [ctx |-> ctx, err |-> NoHookErr, returned |-> FALSE])
                /\ hookCall' = [NoHookCall EXCEPT !.active = TRUE, !.id = id, !.ctx = ctx, !.mi = 1]
        /\ UNCHANGED <<hookCfg, hookEnv, hookLog>>
        /\ UNCHANGED nonHookVars

\* Execute, head of the loop over the matchers: return nil after the last
\* one, return ctx.Err() when the context is done, skip a matcher that does
\* not apply, enter the hooks of one that does.
ExecuteMatcher ==
    LET c == hookCall
        ms == MatchersFor(c.ctx.EventType)
    IN
    /\ c.active /\ c.hi = 0 /\ ~c.running
    /\ IF c.mi > Len(ms) THEN ReturnFrom(c, NoHookErr)
       ELSE IF CtxErr(c) THEN ReturnFrom(c, HookErr("context canceled", 0, 0))
       ELSE IF ~matcherApplies(ms[c.mi], c.ctx) \/ ms[c.mi].Hooks = <<>>
       THEN hookCall' = NextMatcher(c) /\ UNCHANGED hookCalls
       ELSE hookCall' = [c EXCEPT !.hi = 1] /\ UNCHANGED hookCalls
    /\ UNCHANGED <<hookCfg, hookEnv, hookLog>>
    /\ UNCHANGED nonHookVars

\* executeHook, up to the start of the command: an unsupported hook type is
\* an error; otherwise the timeout is fixed, the environment is set and the
\* command is started.
ExecuteHookStart ==
    LET c == hookCall
        ms == MatchersFor(c.ctx.EventType)
    IN
    /\ c.active /\ c.hi > 0 /\ ~c.running
    /\ LET hook == ms[c.mi].Hooks[c.hi] IN
       IF hook.Type # "command"
       THEN /\ ReturnFrom(c, HookErr("unsupported hook type", c.mi, c.hi))
            /\ UNCHANGED <<hookEnv, hookLog>>
       ELSE /\ hookEnv' = EnvAfter(hookEnv, c.ctx)
            /\ hookLog' = Append(hookLog,
                   [call |-> c.id, mi |-> c.mi, hi |-> c.hi, command |-> hook.Command,
                    tool |-> c.ctx.ToolName, timeout |-> HookTimeout(hook),
                    configured |-> hook.Timeout, env |-> EnvAfter(hookEnv, c.ctx),
                    outcome |-> "running"])
            /\ hookCall' = [c EXCEPT !.running = TRUE]
            /\ UNCHANGED hookCalls
    /\ UNCHANGED hookCfg
    /\ UNCHANGED nonHookVars

\* executeHook, the command has ended: on success the next hook of the
\* matcher, or the next matcher, is up; on failure Execute returns the error.
ExecuteHookEnd ==
    \E o \in HookOutcomes(hookCall.cancelled) :
        LET c == hookCall
            ms == MatchersFor(c.ctx.EventType)
        IN
        /\ c.active /\ c.running
        /\ hookLog' = [hookLog EXCEPT ![Len(hookLog)].outcome = o]
        /\ IF Failed(o)
           THEN ReturnFrom(c, HookErr(o, c.mi, c.hi))
           ELSE /\ hookCall' = AfterHook(c, ms)
                /\ UNCHANGED hookCalls
        /\ UNCHANGED <<hookCfg, hookEnv>>
        /\ UNCHANGED nonHookVars

\* The caller cancels the context it passed to Execute.
ExecuteCancel ==
    /\ hookCall.active /\ ~hookCall.cancelled
    /\ hookCall.id \in CancellableCalls
    /\ hookCall' = [hookCall EXCEPT !.cancelled = TRUE]
    /\ UNCHANGED <<hookCfg, hookEnv, hookLog, hookCalls>>
    /\ UNCHANGED nonHookVars

\* NewExecutor
HookStart ==
    /\ hookEnv = <<>>
    /\ hookCall = NoHookCall
    /\ hookLog = <<>>
    /\ hookCalls = <<>>

HookInit == hookCfg \in HookConfigs /\ HookStart

\* An executor without hooks, while another component is looked at.
HookIdle == hookCfg = HookConfigNone /\ HookStart

HookNext ==
    \/ Execute
    \/ ExecuteMatcher
    \/ ExecuteHookStart
    \/ ExecuteHookEnd
    \/ ExecuteCancel

\* ========================================================================
\* Client event subscription
\* ========================================================================

\* The payload type tags the read loop knows, and the type of the event it
\* decodes a frame of each into.
KnownPayloadTypes ==
    {"PayloadTypeLSPEvent", "PayloadTypeMCPEvent", "PayloadTypePermissionRequest",
     "PayloadTypePermissionNotification", "PayloadTypeMessage", "PayloadTypeSession",
     "PayloadTypeFile", "PayloadTypeAgentEvent"}
EventTypeOf(tag) ==
    CASE tag = "PayloadTypeLSPEvent"               -> "pubsub.Event[proto.LSPEvent]"
      [] tag = "PayloadTypeMCPEvent"               -> "pubsub.Event[proto.MCPEvent]"
      [] tag = "PayloadTypePermissionRequest"      -> "pubsub.Event[proto.PermissionRequest]"
      [] tag = "PayloadTypePermissionNotification" -> "pubsub.Event[proto.PermissionNotification]"
      [] tag = "PayloadTypeMessage"                -> "pubsub.Event[proto.Message]"
      [] tag = "PayloadTypeSession"                -> "pubsub.Event[proto.Session]"
      [] tag = "PayloadTypeFile"                   -> "pubsub.Event[proto.File]"
      [] tag = "PayloadTypeAgentEvent"             -> "pubsub.Event[proto.AgentEvent]"

\* The lines that arrive on the response body: a data line carrying an
\* event whose payload has type tag `tag`, a data line that is not JSON, a
\* line without the "data:" prefix, and the blank line that ends an event.
DataFrame(tag) == [line |-> "data", tag |-> tag]
BadJSONFrame   == [line |-> "badjson", tag |-> ""]
InvalidFrame   == [line |-> "invalid", tag |-> ""]
BlankFrame     == [line |-> "blank", tag |-> ""]
Frames ==
    {DataFrame(tag) : tag \in KnownPayloadTypes \cup {"PayloadTypeOther"}}
        \cup {BadJSONFrame, InvalidFrame, BlankFrame}

\* The number of lines the server sends, and the capacity of the channel
\* (100 in the program).
MaxFrames == 2
ChanCap   == 1

\* What the loop does with a line: "send" it as a typed event, or "drop" it
\* and read on; "break" ends the loop.
OnUnknownBreak == "break"
OnUnknown == "drop"
Dispatch(frame) ==
    CASE frame.line = "blank"   -> [do |-> "drop", why |-> "end of event", type |-> ""]
      [] frame.line = "invalid" -> [do |-> "drop", why |-> "invalid event format", type |-> ""]
      [] frame.line = "badjson" -> [do |-> "drop", why |-> "unmarshaling event", type |-> ""]
      [] frame.line = "data" /\ frame.tag \in KnownPayloadTypes ->
             [do |-> "send", why |-> "", type |-> EventTypeOf(frame.tag)]
      [] OTHER -> [do |-> OnUnknown, why |-> "unknown event type", type |-> ""]

NoFrame == [line |-> "", tag |-> ""]

\* The server writes a line to the stream.
ServerSend ==
    \E f \in Frames :
        /\ evLoop.conn = "open"
        /\ Len(evSent) + Len(evStream) + (IF evLoop.pc = "send" THEN 1 ELSE 0) < MaxFrames
        /\ evStream' = Append(evStream, f)
        /\ UNCHANGED <<evLoop, evChan, evCtx, evGot, evSent>>
        /\ UNCHANGED nonEventVars

\* The connection drops: the reader sees end-of-stream, or a read error.
ConnDrop ==
    \E how \in {"eof", "error"} :
        /\ evLoop.conn = "open"
        /\ evLoop' = [evLoop EXCEPT !.conn = how]
        /\ UNCHANGED <<evStream, evChan, evCtx, evGot, evSent>>
        /\ UNCHANGED nonEventVars

\* SubscribeEvents, goroutine: c.h.Do(r) and the status check.
LoopConnect ==
    \E o \in {"ok", "error", "status"} :
        /\ evLoop.pc = "connect"
        /\ evLoop' = [evLoop EXCEPT !.pc = IF o = "ok" THEN "read" ELSE "end",
                                    !.conn = IF o = "ok" THEN "open" ELSE "none"]
        /\ UNCHANGED <<evStream, evChan, evCtx, evGot, evSent>>
        /\ UNCHANGED nonEventVars

\* SubscribeEvents, goroutine: scr.ReadBytes returns a line, which is
\* decoded and dispatched on the type tag of its payload.
LoopRead ==
    /\ evLoop.pc = "read"
    /\ evStream # <<>>
    /\ LET f == Head(evStream)
           d == Dispatch(f)
       IN
       /\ evStream' = Tail(evStream)
       /\ IF d.do = "send"
          THEN /\ evLoop' = [evLoop EXCEPT !.pc = "send", !.pending = f]
               /\ UNCHANGED evSent
          ELSE /\ evLoop' = [evLoop EXCEPT !.pc = IF d.do = "break" THEN "end" ELSE "read"]
               /\ evSent' = Append(evSent, [frame |-> f, did |-> "dropped"])
    /\ UNCHANGED <<evChan, evCtx, evGot>>
    /\ UNCHANGED nonEventVars

\* SubscribeEvents, goroutine: scr.ReadBytes returns io.EOF once the lines
\* that arrived have been read: the loop ends.
LoopEOF ==
    /\ evLoop.pc = "read"
    /\ evStream = <<>>
    /\ evLoop.conn = "eof"
    /\ evLoop' = [evLoop EXCEPT !.pc = "end"]
    /\ UNCHANGED <<evStream, evChan, evCtx, evGot, evSent>>
    /\ UNCHANGED nonEventVars

\* SubscribeEvents, goroutine: scr.ReadBytes returns another error: the
\* loop logs it, sleeps two seconds and reads again.
LoopReadError ==
    /\ evLoop.pc = "read"
    /\ evStream = <<>>
    /\ evLoop.conn = "error"
    /\ evLoop' = [evLoop EXCEPT !.retried = TRUE]
    /\ UNCHANGED <<evStream, evChan, evCtx, evGot, evSent>>
    /\ UNCHANGED nonEventVars

\* sendEvent, case evc <- ev: the event goes into the channel when there is
\* room; sending on a closed channel panics.
SendEvent ==
    /\ evLoop.pc = "send"
    /\ IF evChan.closed
       THEN /\ evLoop' = [evLoop EXCEPT !.pc = "panic", !.pending = NoFrame]
            /\ evSent' = Append(evSent, [frame |-> evLoop.pending, did |-> "send on closed channel"])
            /\ UNCHANGED evChan
       ELSE /\ Len(evChan.buf) < ChanCap
            /\ evChan' = [evChan EXCEPT !.buf = Append(@, EventTypeOf(evLoop.pending.tag))]
            /\ evLoop' = [evLoop EXCEPT !.pc = "read", !.pending = NoFrame]
            /\ evSent' = Append(evSent, [frame |-> evLoop.pending, did |-> "sent"])
    /\ UNCHANGED <<evStream, evCtx, evGot>>
    /\ UNCHANGED nonEventVars

\* sendEvent, case <-ctx.Done(): close(evc) and return to the loop; closing
\* a closed channel panics.
SendEventDone ==
    /\ evLoop.pc = "send"
    /\ evCtx
    /\ IF evChan.closed
       THEN /\ evLoop' = [evLoop EXCEPT !.pc = "panic", !.pending = NoFrame]
            /\ evSent' = Append(evSent, [frame |-> evLoop.pending, did |-> "close of closed channel"])
            /\ UNCHANGED evChan
       ELSE /\ evChan' = [evChan EXCEPT !.closed = TRUE]
            /\ evLoop' = [evLoop EXCEPT !.pc = "read", !.pending = NoFrame]
            /\ evSent' = Append(evSent, [frame |-> evLoop.pending, did |-> "closed"])
    /\ UNCHANGED <<evStream, evCtx, evGot>>
    /\ UNCHANGED nonEventVars

\* The subscriber receives from the channel.
Receive ==
    /\ evChan.buf # <<>>
    /\ evGot' = Append(evGot, Head(evChan.buf))
    /\ evChan' = [evChan EXCEPT !.buf = Tail(@)]
    /\ UNCHANGED <<evStream, evLoop, evCtx, evSent>>
    /\ UNCHANGED nonEventVars

\* The subscriber cancels the subscription context.
CancelSubscription ==
    /\ ~evCtx
    /\ evCtx' = TRUE
    /\ UNCHANGED <<evStream, evLoop, evChan, evGot, evSent>>
    /\ UNCHANGED nonEventVars

EventsInit ==
    /\ evStream = <<>>
    /\ evLoop = [pc |-> "connect", conn |-> "none", pending |-> NoFrame, retried |-> FALSE]
    /\ evChan = [buf |-> <<>>, closed |-> FALSE]
    /\ evCtx = FALSE
    /\ evGot = <<>>
    /\ evSent = <<>>

EventsNext ==
    \/ ServerSend
    \/ ConnDrop
    \/ LoopConnect
    \/ LoopRead
    \/ LoopEOF
    \/ LoopReadError
    \/ SendEvent
    \/ SendEventDone
    \/ Receive
    \/ CancelSubscription

\* ========================================================================
\* Server event streams
\* ========================================================================

\* The clients that subscribe to the events of an instance, the instance
\* they name (one that can be registered, one that never is), and the
\* number of events the instance's app publishes.
Subscribers == {"c1", "c2"}
StreamPath  == <<"a">>
StreamIDs   == {InstanceID(StreamPath), Hash(<<"zz">>)}
MaxEvents   == 2

\* A subscriber before its request: no handler, nothing written.
NoSub ==
    [pc |-> "none", id |-> NoID, conn |-> "open", ctx |-> FALSE, hand |-> 0,
     since |-> 0, handled |-> <<>>]

\* The handlers that are in their loop.
Streaming == {s \in Subscribers : streamSubs[s].pc \in {"select", "write"}}

\* ins.App.Events(): the event channel of the instance. An event the app
\* publishes waits in it until one handler receives it.
EventsAfterPublish(ev) == Append(streamFeed, ev)

\* The registry after a handler wrote, or failed to write, a frame: the
\* handler has no statement that touches c.instances after the lookup.
InstancesAfterWrite(id, ok) == instances

\* A client creates the instance the subscribers name.
StreamCreate ==
    /\ handlePostInstances(StreamPath, "", FALSE, FALSE, "ok")
    /\ UNCHANGED nonServerVars

\* The app of the instance publishes its next event.
AppPublish ==
    /\ InstanceID(StreamPath) \in DOMAIN instances
    /\ streamPub < MaxEvents
    /\ streamPub' = streamPub + 1
    /\ streamFeed' = EventsAfterPublish(streamPub + 1)
    /\ UNCHANGED streamSubs
    /\ UNCHANGED nonStreamVars

\* handleGetInstanceEvents up to the loop: the lookup, 404 when the
\* instance is not registered, otherwise the headers.
StreamOpen(s) ==
    \E id \in StreamIDs :
        /\ streamSubs[s].pc = "none"
        /\ streamSubs' = [streamSubs EXCEPT ![s] =
               [@ EXCEPT !.pc = IF Lookup(id) THEN "select" ELSE "notfound",
                         !.id = id, !.since = streamPub]]
        /\ UNCHANGED <<streamFeed, streamPub>>
        /\ UNCHANGED nonStreamVars

\* case ev := <-ins.App.Events(), json.Marshal(ev): a marshalling error is
\* logged and the loop goes on.
StreamReceive(s) ==
    \E marshalled \in BOOLEAN :
        /\ streamSubs[s].pc = "select"
        /\ streamFeed # <<>>
        /\ streamFeed' = Tail(streamFeed)
        /\ streamSubs' = [streamSubs EXCEPT ![s] =
               IF marshalled
               THEN [@ EXCEPT !.pc = "write", !.hand = Head(streamFeed)]
               ELSE [@ EXCEPT !.handled =
                         Append(@, [ev |-> Head(streamFeed), did |-> "marshal failed"])]]
        /\ UNCHANGED streamPub
        /\ UNCHANGED nonStreamVars

\* fmt.Fprintf(w, "data: %s\n\n", data); flusher.Flush(): both results are
\* discarded, so after a failed write the loop goes on as after a good one.
StreamWrite(s) ==
    LET ok == streamSubs[s].conn = "open" IN
    /\ streamSubs[s].pc = "write"
    /\ streamSubs' = [streamSubs EXCEPT ![s] =
           [@ EXCEPT !.pc = "select", !.hand = 0,
                     !.handled = Append(@, [ev |-> streamSubs[s].hand,
                                            did |-> IF ok THEN "written" ELSE "write failed"])]]
    /\ instances' = InstancesAfterWrite(streamSubs[s].id, ok)
    /\ UNCHANGED <<streamFeed, streamPub, last>>
    /\ UNCHANGED <<shellVars, mcpVars, hookVars, matchVars, eventVars, lockVars, createVars, clientVars>>

\* case <-r.Context().Done(): return.
StreamDone(s) ==
    /\ streamSubs[s].pc = "select"
    /\ streamSubs[s].ctx
    /\ streamSubs' = [streamSubs EXCEPT ![s] = [@ EXCEPT !.pc = "returned"]]
    /\ UNCHANGED <<streamFeed, streamPub>>
    /\ UNCHANGED nonStreamVars

\* The connection of a subscriber breaks: writes to it fail from now on.
StreamBreak(s) ==
    /\ streamSubs[s].pc \in {"select", "write"}
    /\ streamSubs[s].conn = "open"
    /\ streamSubs' = [streamSubs EXCEPT ![s] = [@ EXCEPT !.conn = "broken"]]
    /\ UNCHANGED <<streamFeed, streamPub>>
    /\ UNCHANGED nonStreamVars

\* The request context of a subscriber is cancelled: the server does this
\* some time after the connection broke.
StreamCancel(s) ==
    /\ streamSubs[s].conn = "broken"
    /\ ~streamSubs[s].ctx
    /\ streamSubs' = [streamSubs EXCEPT ![s] = [@ EXCEPT !.ctx = TRUE]]
    /\ UNCHANGED <<streamFeed, streamPub>>
    /\ UNCHANGED nonStreamVars

StreamInit ==
    /\ streamSubs = [s \in Subscribers |-> NoSub]
    /\ streamFeed = <<>>
    /\ streamPub = 0

StreamNext ==
    \/ StreamCreate
    \/ AppPublish
    \/ \E s \in Subscribers : StreamOpen(s)
    \/ \E s \in Subscribers : StreamReceive(s)
    \/ \E s \in Subscribers : StreamWrite(s)
    \/ \E s \in Subscribers : StreamDone(s)
    \/ \E s \in Subscribers : StreamBreak(s)
    \/ \E s \in Subscribers : StreamCancel(s)

\* ========================================================================
\* Background process manager: the locks
\* ========================================================================

\* The goroutines that call the manager, and the ids Generate() hands out.
Goroutines == {"g1", "g2"}
LockIDs    == {1, 2}

Idle == [op |-> "idle", id |-> 0, pc |-> "idle"]
NoRunner == [pc |-> "none", cancelled |-> FALSE, readers |-> {}]

\* sync.RWMutex: Lock waits for the writer and the readers to leave, RLock
\* for the writer.
MuFree     == [w |-> "", r |-> {}]
CanLock(mu)  == mu.w = "" /\ mu.r = {}
CanRLock(mu) == mu.w = ""

At(g, op, pc) == lkCalls[g].op = op /\ lkCalls[g].pc = pc
Goto(g, pc)   == [lkCalls EXCEPT ![g].pc = pc]
Return(g)     == [lkCalls EXCEPT ![g] = Idle]

\* Where Kill releases m.mu: before shell.cancel(), as written, or on
\* return, as a deferred unlock would.
KillUnlocksOnReturn == "return"
KillUnlocks == "before cancel"

\* Start: the id, the shell and the context, before m.mu is taken.
LkStart(g) ==
    /\ lkCalls[g] = Idle
    /\ lkNext \in LockIDs
    /\ lkCalls' = [lkCalls EXCEPT ![g] = [op |-> "Start", id |-> lkNext, pc |-> "lock"]]
    /\ lkNext' = lkNext + 1
    /\ UNCHANGED <<lkMu, lkShells, lkRun>>
    /\ UNCHANGED nonLockVars

\* Start: m.mu.Lock()
LkStartLock(g) ==
    /\ At(g, "Start", "lock")
    /\ CanLock(lkMu)
    /\ lkMu' = [lkMu EXCEPT !.w = g]
    /\ lkCalls' = Goto(g, "locked")
    /\ UNCHANGED <<lkShells, lkRun, lkNext>>
    /\ UNCHANGED nonLockVars

\* Start: m.shells[id] = bgShell; m.mu.Unlock()
LkStartInsert(g) ==
    /\ At(g, "Start", "locked")
    /\ lkShells' = lkShells \cup {lkCalls[g].id}
    /\ lkMu' = MuFree
    /\ lkCalls' = Goto(g, "go")
    /\ UNCHANGED <<lkRun, lkNext>>
    /\ UNCHANGED nonLockVars

\* Start: go func() { ... }(); return bgShell, nil
LkStartGo(g) ==
    /\ At(g, "Start", "go")
    /\ lkRun' = [lkRun EXCEPT ![lkCalls[g].id].pc = "exec"]
    /\ lkCalls' = Return(g)
    /\ UNCHANGED <<lkMu, lkShells, lkNext>>
    /\ UNCHANGED nonLockVars

\* The context passed to Start is cancelled.
LkParentCancel(id) ==
    /\ lkRun[id].pc = "exec"
    /\ ~lkRun[id].cancelled
    /\ lkRun' = [lkRun EXCEPT ![id].cancelled = TRUE]
    /\ UNCHANGED <<lkMu, lkShells, lkCalls, lkNext>>
    /\ UNCHANGED nonLockVars

\* The runner: shell.Exec returns, because the command ended or because
\* its context is cancelled.
LkRunnerExec(id) ==
    /\ lkRun[id].pc = "exec"
    /\ lkRun' = [lkRun EXCEPT ![id].pc = "lock"]
    /\ UNCHANGED <<lkMu, lkShells, lkCalls, lkNext>>
    /\ UNCHANGED nonLockVars

\* The runner: bgShell.mu.Lock()
LkRunnerLock(id) ==
    /\ lkRun[id].pc = "lock"
    /\ lkRun[id].readers = {}
    /\ lkRun' = [lkRun EXCEPT ![id].pc = "locked"]
    /\ UNCHANGED <<lkMu, lkShells, lkCalls, lkNext>>
    /\ UNCHANGED nonLockVars

\* The runner: the writes and bgShell.mu.Unlock()
LkRunnerUnlock(id) ==
    /\ lkRun[id].pc = "locked"
    /\ lkRun' = [lkRun EXCEPT ![id].pc = "close"]
    /\ UNCHANGED <<lkMu, lkShells, lkCalls, lkNext>>
    /\ UNCHANGED nonLockVars

\* The runner: the deferred close(bgShell.done)
LkRunnerClose(id) ==
    /\ lkRun[id].pc = "close"
    /\ lkRun' = [lkRun EXCEPT ![id].pc = "closed"]
    /\ UNCHANGED <<lkMu, lkShells, lkCalls, lkNext>>
    /\ UNCHANGED nonLockVars

\* Get(id) and List(): m.mu.RLock()
LkRead(g) ==
    \E op \in {"Get", "List"}, id \in LockIDs :
        /\ lkCalls[g] = Idle
        /\ op = "List" => id = 1
        /\ lkCalls' = [lkCalls EXCEPT ![g] = [op |-> op, id |-> id, pc |-> "rlock"]]
        /\ UNCHANGED <<lkMu, lkShells, lkRun, lkNext>>
        /\ UNCHANGED nonLockVars

LkReadLock(g) ==
    /\ lkCalls[g].op \in {"Get", "List"}
    /\ lkCalls[g].pc = "rlock"
    /\ CanRLock(lkMu)
    /\ lkMu' = [lkMu EXCEPT !.r = @ \cup {g}]
    /\ lkCalls' = Goto(g, "rlocked")
    /\ UNCHANGED <<lkShells, lkRun, lkNext>>
    /\ UNCHANGED nonLockVars

\* Get(id) and List(): the read of m.shells and the deferred m.mu.RUnlock()
LkReadReturn(g) ==
    /\ lkCalls[g].op \in {"Get", "List"}
    /\ lkCalls[g].pc = "rlocked"
    /\ lkMu' = [lkMu EXCEPT !.r = @ \ {g}]
    /\ lkCalls' = Return(g)
    /\ UNCHANGED <<lkShells, lkRun, lkNext>>
    /\ UNCHANGED nonLockVars

\* GetOutput of a shell whose runner has been started: bs.mu.RLock()
LkGetOutput(g) ==
    \E id \in LockIDs :
        /\ lkCalls[g] = Idle
        /\ lkRun[id].pc # "none"
        /\ lkCalls' = [lkCalls EXCEPT ![g] = [op |-> "GetOutput", id |-> id, pc |-> "rlock"]]
        /\ UNCHANGED <<lkMu, lkShells, lkRun, lkNext>>
        /\ UNCHANGED nonLockVars

LkGetOutputLock(g) ==
    /\ At(g, "GetOutput", "rlock")
    /\ lkRun[lkCalls[g].id].pc # "locked"
    /\ lkRun' = [lkRun EXCEPT ![lkCalls[g].id].readers = @ \cup {g}]
    /\ lkCalls' = Goto(g, "rlocked")
    /\ UNCHANGED <<lkMu, lkShells, lkNext>>
    /\ UNCHANGED nonLockVars

\* GetOutput: the select on bs.done and the deferred bs.mu.RUnlock()
LkGetOutputReturn(g) ==
    /\ At(g, "GetOutput", "rlocked")
    /\ lkRun' = [lkRun EXCEPT ![lkCalls[g].id].readers = @ \ {g}]
    /\ lkCalls' = Return(g)
    /\ UNCHANGED <<lkMu, lkShells, lkNext>>
    /\ UNCHANGED nonLockVars

\* Kill(id): m.mu.Lock()
LkKill(g) ==
    \E id \in LockIDs :
        /\ lkCalls[g] = Idle
        /\ lkCalls' = [lkCalls EXCEPT ![g] = [op |-> "Kill", id |-> id, pc |-> "lock"]]
        /\ UNCHANGED <<lkMu, lkShells, lkRun, lkNext>>
        /\ UNCHANGED nonLockVars

LkKillLock(g) ==
    /\ At(g, "Kill", "lock")
    /\ CanLock(lkMu)
    /\ lkMu' = [lkMu EXCEPT !.w = g]
    /\ lkCalls' = Goto(g, "locked")
    /\ UNCHANGED <<lkShells, lkRun, lkNext>>
    /\ UNCHANGED nonLockVars

\* Kill: the lookup; m.mu.Unlock() and the error when the id is unknown,
\* otherwise delete(m.shells, id) and m.mu.Unlock().
LkKillDelete(g) ==
    /\ At(g, "Kill", "locked")
    /\ IF lkCalls[g].id \notin lkShells
       THEN /\ lkMu' = MuFree
            /\ lkCalls' = Return(g)
            /\ UNCHANGED lkShells
       ELSE /\ lkShells' = lkShells \ {lkCalls[g].id}
            /\ lkMu' = IF KillUnlocks = "before cancel" THEN MuFree ELSE lkMu
            /\ lkCalls' = Goto(g, "cancel")
    /\ UNCHANGED <<lkRun, lkNext>>
    /\ UNCHANGED nonLockVars

\* Kill: shell.cancel()
LkKillCancel(g) ==
    /\ At(g, "Kill", "cancel")
    /\ lkRun' = [lkRun EXCEPT ![lkCalls[g].id].cancelled = TRUE]
    /\ lkCalls' = Goto(g, "wait")
    /\ UNCHANGED <<lkMu, lkShells, lkNext>>
    /\ UNCHANGED nonLockVars

\* Kill: <-shell.done; return nil
LkKillReturn(g) ==
    /\ At(g, "Kill", "wait")
    /\ lkRun[lkCalls[g].id].pc = "closed"
    /\ lkMu' = IF lkMu.w = g THEN MuFree ELSE lkMu
    /\ lkCalls' = Return(g)
    /\ UNCHANGED <<lkShells, lkRun, lkNext>>
    /\ UNCHANGED nonLockVars

LockInit ==
    /\ lkMu = MuFree
    /\ lkShells = {}
    /\ lkRun = [id \in LockIDs |-> NoRunner]
    /\ lkCalls = [g \in Goroutines |-> Idle]
    /\ lkNext = 1

LockNext ==
    \/ \E g \in Goroutines : LkStart(g)
    \/ \E g \in Goroutines : LkStartLock(g)
    \/ \E g \in Goroutines : LkStartInsert(g)
    \/ \E g \in Goroutines : LkStartGo(g)
    \/ \E id \in LockIDs : LkParentCancel(id)
    \/ \E id \in LockIDs : LkRunnerExec(id)
    \/ \E id \in LockIDs : LkRunnerLock(id)
    \/ \E id \in LockIDs : LkRunnerUnlock(id)
    \/ \E id \in LockIDs : LkRunnerClose(id)
    \/ \E g \in Goroutines : LkRead(g)
    \/ \E g \in Goroutines : LkReadLock(g)
    \/ \E g \in Goroutines : LkReadReturn(g)
    \/ \E g \in Goroutines : LkGetOutput(g)
    \/ \E g \in Goroutines : LkGetOutputLock(g)
    \/ \E g \in Goroutines : LkGetOutputReturn(g)
    \/ \E g \in Goroutines : LkKill(g)
    \/ \E g \in Goroutines : LkKillLock(g)
    \/ \E g \in Goroutines : LkKillDelete(g)
    \/ \E g \in Goroutines : LkKillCancel(g)
    \/ \E g \in Goroutines : LkKillReturn(g)

\* ========================================================================
\* Control-plane server: create requests handled concurrently
\* ========================================================================

\* net/http runs every request in a goroutine of its own: the handlers of
\* two create requests, and the working directories they ask for ("/a",
\* "/a/." and "/").
Handlers == {"h1", "h2"}
CreatePaths == {<<"a">>, <<"a", ".">>, <<>>}

\* A handler before its request has arrived.
NoCreate ==
    [pc |-> "idle", path |-> <<>>, yolo |-> FALSE, id |-> NoID, status |-> 0,
     msg |-> "", body |-> NoBody, of |-> ""]

\* The *Instance the handler h builds: the app is told apart by the handler
\* that constructed it.
NewInstance(h, id, path, yolo) ==
    [id |-> id, path |-> path, yolo |-> yolo, cfg |-> ConfigInit(path, "", FALSE), app |-> h]

\* c.instances.Set(id, ins): csync.Map.Set stores under the key whatever was
\* there.
InstancesAfterSet(id, ins) ==
    [i \in DOMAIN crInstances \cup {id} |-> IF i = id THEN ins ELSE crInstances[i]]

\* handlePostInstances: the body is decoded and the id computed.
CreateDecode(h) ==
    \E path \in CreatePaths, yolo \in BOOLEAN, ok \in BOOLEAN :
        /\ crCalls[h].pc = "idle"
        /\ crCalls' = [crCalls EXCEPT ![h] =
               IF ok
               THEN [@ EXCEPT !.pc = "get", !.path = path, !.yolo = yolo, !.id = InstanceID(path)]
               ELSE [@ EXCEPT !.pc = "done", !.status = CreateFailure("decode").status,
                              !.msg = CreateFailure("decode").msg]]
        /\ UNCHANGED <<crInstances, crApps>>
        /\ UNCHANGED nonCreateVars

\* handlePostInstances: c.instances.Get(id); an existing instance is
\* answered with its descriptor.
CreateGet(h) ==
    LET c == crCalls[h] IN
    /\ c.pc = "get"
    /\ crCalls' = [crCalls EXCEPT ![h] =
           IF c.id \in DOMAIN crInstances
           THEN [c EXCEPT !.pc = "done", !.status = 200,
                          !.body = ExistingDescriptor(crInstances[c.id]),
                          !.of = crInstances[c.id].app]
           ELSE [c EXCEPT !.pc = "build"]]
    /\ UNCHANGED <<crInstances, crApps>>
    /\ UNCHANGED nonCreateVars

\* handlePostInstances: config.Init, createDotCrushDir, db.Connect and
\* app.New; the first that fails ends the request.
CreateBuild(h) ==
    \E o \in CreateOutcomes \ {"decode"} :
        LET c == crCalls[h] IN
        /\ c.pc = "build"
        /\ IF o = "ok"
           THEN /\ crApps' = crApps \cup {NewInstance(h, c.id, c.path, c.yolo)}
                /\ crCalls' = [crCalls EXCEPT ![h].pc = "set"]
           ELSE /\ crCalls' = [crCalls EXCEPT ![h] =
                       [c EXCEPT !.pc = "done", !.status = CreateFailure(o).status,
                                 !.msg = CreateFailure(o).msg]]
                /\ UNCHANGED crApps
        /\ UNCHANGED crInstances
        /\ UNCHANGED nonCreateVars

\* handlePostInstances: c.instances.Set(id, ins) and the descriptor of the
\* new instance.
CreateSet(h) ==
    LET c == crCalls[h] IN
    /\ c.pc = "set"
    /\ crInstances' = InstancesAfterSet(c.id, NewInstance(h, c.id, c.path, c.yolo))
    /\ crCalls' = [crCalls EXCEPT ![h] =
           [c EXCEPT !.pc = "done", !.status = 200,
                     !.body = CreatedDescriptor(c.id, c.path, c.yolo), !.of = h]]
    /\ UNCHANGED crApps
    /\ UNCHANGED nonCreateVars

CreateInit ==
    /\ crInstances = <<>>
    /\ crCalls = [h \in Handlers |-> NoCreate]
    /\ crApps = {}

CreateNext ==
    \/ \E h \in Handlers : CreateDecode(h)
    \/ \E h \in Handlers : CreateGet(h)
    \/ \E h \in Handlers : CreateBuild(h)
    \/ \E h \in Handlers : CreateSet(h)

\* ========================================================================
\* Client: the instance identifier of its per-instance requests
\* ========================================================================

\* The client processes, each started in a working directory of Paths.
Clients == {"c1", "c2"}

\* The two NewClient functions of the client package.
ClientBuilds == {"hashed", "unset"}

\* The per-instance requests: they all put c.id into the request path.
ClientOps == {"events", "sessions", "agent", "delete"}

NoClient == [pc |-> "idle", cwd |-> <<>>, path |-> <<>>, id |-> NoID]
NoRequest == [op |-> "", id |-> NoID, status |-> 0]

\* NewClient: the id of the new Client. One NewClient hashes the path as
\* it was given and cleans it only for c.path; the other leaves c.id at
\* its zero value for SetID to fill in.
ClientID(build, path) == IF build = "hashed" THEN Hash(path) ELSE NoID

\* setupApp: cwd from ResolveCwd, NewClient(cwd), then CreateInstance with
\* Path: cwd. The server registers the instance under the hash of the
\* cleaned path unless it has one; setupApp drops the descriptor the
\* server returns, so c.id stays what NewClient made it.
setupApp(c, cwd, build, outcome) ==
    /\ clClients[c].pc = "idle"
    /\ LET id == InstanceID(cwd) IN
       IF outcome = "ok"
       THEN /\ clClients' = [clClients EXCEPT ![c] =
                   [pc |-> "attached", cwd |-> cwd, path |-> Clean(cwd),
                    id |-> ClientID(build, cwd)]]
            /\ clInstances' = IF id \in DOMAIN clInstances THEN clInstances
                              ELSE [i \in DOMAIN clInstances \cup {id} |->
                                      IF i = id THEN Clean(cwd) ELSE clInstances[i]]
       ELSE /\ clClients' = [clClients EXCEPT ![c].pc = "failed"]
            /\ clInstances' = clInstances
    /\ UNCHANGED clLast
    /\ UNCHANGED nonClientVars

\* A per-instance request of an attached client: the URL carries c.id, and
\* the server answers 404 when no instance is registered under it. The
\* delete request is the one the root command defers until the TUI exits.
ClientRequest(c, op) ==
    /\ clClients[c].pc = "attached"
    /\ LET id == clClients[c].id
           found == id \in DOMAIN clInstances
       IN  /\ clLast' = [clLast EXCEPT ![c] =
                  [op |-> op, id |-> id, status |-> IF found THEN 200 ELSE 404]]
           /\ clInstances' = IF op = "delete" /\ found
                             THEN [i \in DOMAIN clInstances \ {id} |-> clInstances[i]]
                             ELSE clInstances
           /\ clClients' = IF op = "delete" THEN [clClients EXCEPT ![c].pc = "exited"]
                           ELSE clClients
    /\ UNCHANGED nonClientVars

ClientInit ==
    /\ clClients = [c \in Clients |-> NoClient]
    /\ clInstances = <<>>
    /\ clLast = [c \in Clients |-> NoRequest]

ClientNext ==
    \/ \E c \in Clients, cwd \in Paths, build \in ClientBuilds, outcome \in {"ok", "config"} :
          setupApp(c, cwd, build, outcome)
    \/ \E c \in Clients, op \in ClientOps : ClientRequest(c, op)

\* ========================================================================
\* Specifications
\* ========================================================================

Init ==
    ServerInit /\ ShellInit /\ MCPIdle /\ HookIdle /\ MatchIdle /\ EventsInit /\ StreamInit
        /\ LockInit /\ CreateInit /\ ClientInit

InitMCP ==
    ServerInit /\ ShellInit /\ MCPInit /\ HookIdle /\ MatchIdle /\ EventsInit /\ StreamInit
        /\ LockInit /\ CreateInit /\ ClientInit

InitHooks ==
    ServerInit /\ ShellInit /\ MCPIdle /\ HookInit /\ MatchIdle /\ EventsInit /\ StreamInit
        /\ LockInit /\ CreateInit /\ ClientInit

InitMatch ==
    ServerInit /\ ShellInit /\ MCPIdle /\ HookIdle /\ MatchInit /\ EventsInit /\ StreamInit
        /\ LockInit /\ CreateInit /\ ClientInit

SpecServer == Init /\ [][ServerNext]_vars

SpecShell == Init /\ [][ShellNext]_vars

\* The background process manager with the scheduling the Go runtime
\* gives: a runner goroutine that can take its next step takes it, and a
\* command that has more to write goes on writing.
SpecShellFair ==
    /\ Init /\ [][ShellNext]_vars
    /\ WF_vars(CommandOutput)
    /\ WF_vars(RunnerExec)
    /\ WF_vars(RunnerWrite)
    /\ WF_vars(RunnerUnlock)
    /\ WF_vars(RunnerClose)

SpecMCP == InitMCP /\ [][MCPNext]_vars

SpecHooks == InitHooks /\ [][HookNext]_vars

SpecMatch == InitMatch /\ [][MatchNext]_vars

SpecEvents == Init /\ [][EventsNext]_vars

SpecStream == Init /\ [][StreamNext]_vars

SpecLocks == Init /\ [][LockNext]_vars

SpecCreate == Init /\ [][CreateNext]_vars

SpecClient == Init /\ [][ClientNext]_vars

\* ========================================================================
\* Properties of the instance registry (SpecServer)
\* ========================================================================

\* The registered instances whose path canonicalizes to P.
InstancesFor(P) == {i \in DOMAIN instances : Clean(instances[i].path) = P}

\* C1: a successful create-instance request for a path that canonicalizes
\* to P returns the hash of P as the instance id, which is also the id the
\* call that registered the instance returned, and afterwards exactly one
\* instance is registered for P.
C1_IdempotentCreate ==
    (last.op = "create" /\ last.status = 200) =>
        LET P == Clean(last.path) IN
        /\ last.body.ID = Hash(P)
        /\ Hash(P) \in DOMAIN instances
        /\ instances[Hash(P)].created.ID = last.body.ID
        /\ Cardinality(InstancesFor(P)) = 1

\* A second create found the instance registered under another spelling of
\* the same directory.
C1_Witness ==
    /\ last.op = "create"
    /\ last.hit
    /\ last.id \in DOMAIN instances
    /\ last.path # instances[last.id].path

\* C2: a create-instance request for an already registered canonical path
\* returns the descriptor the registering call returned and leaves the
\* registry as it was.
C2_SecondCreateReturnsFirstDescriptor ==
    [][(last'.op = "create" /\ last'.hit) =>
          /\ last'.body = instances[last'.id].created
          /\ instances' = instances]_vars

\* C3: after a client's DeleteInstance(id) or DeleteInstances(ids) has been
\* handled, exactly the named ids have left the registry.
C3_ClientDeleteRemoves ==
    [][(last'.op \in {"DeleteInstance", "DeleteInstances"}) =>
          DOMAIN instances' = DOMAIN instances \ last'.ids]_vars

\* C4: a per-instance request naming an id that is not registered is
\* answered 404 "instance not found", does no work on any instance and
\* leaves the registry unchanged.
C4_UnknownInstanceNotFound ==
    [][(last'.op = "instance" /\ last'.id \notin DOMAIN instances) =>
          /\ last'.status = 404
          /\ last'.msg = "instance not found"
          /\ ~last'.acted
          /\ instances' = instances]_vars

\* A per-instance request for an unregistered id was answered while another
\* instance is registered.
C4_Witness ==
    /\ last.op = "instance"
    /\ last.id \in AllIDs \ DOMAIN instances
    /\ last.status = 404
    /\ DOMAIN instances # {}

\* ========================================================================
\* Properties of the background process manager (SpecShell)
\* ========================================================================

\* C5: while the command runs the runner does not hold the shell's lock, so
\* GetOutput's read lock is free; and a GetOutput call made before the
\* runner has finished returns done = false and a nil error.
C5_GetOutputNeverBlocks ==
    /\ \A id \in DOMAIN bg : Step(bg[id]) = "exec" => ~bg[id].locked
    /\ (lastOut.id # 0 /\ lastOut.step # "finished") =>
          (~lastOut.out.done /\ lastOut.out.err = "nil")

\* GetOutput was called while the command was running and had written
\* output.
C5_Witness ==
    /\ lastOut.id # 0
    /\ lastOut.step = "exec"
    /\ lastOut.produced > 0

\* What Exec returned is what the buffers and exitErr of b hold.
FinalOutputRecorded(b) ==
    /\ b.pc > 1
    /\ b.stdout = b.res.stdout
    /\ b.stderr = b.res.stderr
    /\ b.exitErr = b.res.err

\* C6: once a Kill(id) has returned nil, id is not listed, Get(id) finds
\* nothing, and the task is done with the runner's final output recorded.
C6_KillCompleteness ==
    \A id \in DOMAIN bg :
        killOk[id] > 0 =>
            /\ id \notin List
            /\ ~Get(id)
            /\ IsDone(bg[id])
            /\ GetOutputResult(bg[id]).done
            /\ FinalOutputRecorded(bg[id])

\* A Kill returned after interrupting a command that had written output.
C6_Witness ==
    \E id \in DOMAIN bg :
        /\ killOk[id] > 0
        /\ bg[id].res.err = "interrupted"
        /\ bg[id].stdout # <<>>

\* C7: a Kill for an id that is not in the registry returns "not found" and
\* changes nothing, and no task has more than one Kill return success.
C7_KillUnknownIsError ==
    [][\A id \in TaskIDs :
          /\ (lastKill' # lastKill /\ lastKill'.id = id /\ id \notin shells) =>
                /\ lastKill'.err = "not found"
                /\ UNCHANGED <<shells, bg, killWaiting, killOk>>
          /\ killOk'[id] <= 1]_vars

\* A Kill got "not found" for a task whose first Kill is still waiting for
\* the runner.
C7_Witness ==
    \E id \in DOMAIN bg :
        /\ lastKill = [id |-> id, err |-> "not found"]
        /\ killWaiting[id] = 1

\* C8: every GetOutput result with done = true equals the first such
\* result of the task, and once the task is done its buffers, exit error and
\* done flag never change.
C8_CompletedOutputImmutable ==
    /\ [](\A id \in TaskIDs :
            (lastOut.id = id /\ lastOut.out.done /\ doneOut[id].reads > 0) =>
                lastOut.out = doneOut[id].out)
    /\ [][\A id \in DOMAIN bg :
            IsDone(bg[id]) =>
                /\ bg'[id].stdout = bg[id].stdout
                /\ bg'[id].stderr = bg[id].stderr
                /\ bg'[id].exitErr = bg[id].exitErr
                /\ IsDone(bg'[id])]_vars

\* A completed task with output was read twice, and killed.
C8_Witness ==
    \E id \in DOMAIN bg :
        /\ doneOut[id].reads = 2
        /\ lastOut.id = id
        /\ lastOut.out.stdout # <<>>
        /\ killOk[id] = 1

\* C9: Start returns the task and a nil error with the task registered and
\* its command not yet finished; a refused command is reported by the
\* finished task: done, with the "not allowed" exit error.
C9_StartAlwaysReturnsTask ==
    /\ [][nextId' # nextId =>
            /\ lastStart'.id = nextId
            /\ lastStart'.err = "nil"
            /\ nextId \in shells'
            /\ Step(bg'[nextId]) = "exec"
            /\ ~IsDone(bg'[nextId])]_vars
    /\ [](\A id \in DOMAIN bg :
            (bg[id].cmd.blocked /\ Step(bg[id]) = "finished") =>
                /\ GetOutputResult(bg[id]).done
                /\ GetOutputResult(bg[id]).err = "not allowed")

\* A refused command was started and later read as done.
C9_Witness ==
    /\ lastStart.id # 0
    /\ lastStart.err = "nil"
    /\ bg[lastStart.id].cmd.blocked
    /\ doneOut[lastStart.id].reads > 0
    /\ doneOut[lastStart.id].out.err = "not allowed"

\* C10: a GetOutput call made while the command is running returns as
\* stdout the lines the command has written so far.
C10_RunningOutputVisible ==
    (lastOut.id # 0 /\ lastOut.step = "exec") =>
        lastOut.out.stdout = Lines(lastOut.produced)

\* ========================================================================
\* Properties of the MCP orchestrator (SpecMCP)
\* ========================================================================

\* C11: a provider recorded in state `error` has no connection handle, in
\* its state record or in the client registry, and no published tools, in
\* every state, whatever the interleaving of the init goroutines and the
\* tool calls.
C11_ErrorHasNoHandleNoTools ==
    \A n \in DOMAIN mcpStates :
        mcpStates[n].State = "error" =>
            /\ mcpStates[n].Client = NoHandle
            /\ n \notin DOMAIN mcpClients
            /\ n \notin DOMAIN mcpClient2Tools

\* C12: once a provider has gone from `connected` to `error`, none of its
\* tools is in the aggregate tool map the agent takes its tools from.
C12_ErrorProviderToolsRemoved ==
    \A n \in DOMAIN mcpStates :
        mcpStates[n].State = "error" =>
            \A x \in ToolsOf(n) : ToolName(n, x) \notin mcpTools

\* The init goroutine of provider n has ended after a recovered panic.
InitPanicked(n) == mcpThreads[n].pc = "end" /\ mcpThreads[n].result = "panicked"

\* The init goroutine of provider n has ended, and its connect, handshake
\* and tool enumeration all succeeded.
InitSucceeded(n) == mcpThreads[n].pc = "end" /\ mcpThreads[n].result = "ok"

\* No tool call has been made on provider n.
Uncalled(n) == \A w \in Callers : mcpThreads[w].name # n

\* C13: a panic in the initialization of a provider never crashes the
\* orchestrator and leaves that provider in `error`, and every provider
\* whose connect, handshake and enumeration succeed is `connected` with its
\* tools published (in the per-provider map, in the aggregate map and in the
\* result of the startup call) once its goroutine has ended.
C13_PanicIsContained ==
    /\ ~mcpCrashed
    /\ \A a \in Names : InitPanicked(a) => mcpStates[a].State = "error"
    /\ \A b \in Names :
           (InitSucceeded(b) /\ Uncalled(b)) =>
               /\ mcpStates[b].State = "connected"
               /\ b \in DOMAIN mcpClient2Tools
               /\ mcpClient2Tools[b] = ToolsOf(b)
               /\ {ToolName(b, x) : x \in ToolsOf(b)} \subseteq mcpTools
               /\ {ToolName(b, x) : x \in ToolsOf(b)} \subseteq mcpMain.result

\* A panicked in its initialization, B succeeded and is connected, and the
\* startup call has returned.
C13_Witness ==
    /\ InitPanicked("A")
    /\ InitSucceeded("B")
    /\ mcpStates["B"].State = "connected"
    /\ mcpMain.returned
    /\ ~mcpCrashed

\* ========================================================================
\* Properties of the hook matcher (SpecMatch)
\* ========================================================================

\* The call of matcherApplies looked at was for a tool-scoped event.
ToolEventCall == matchArgs.ctx.EventType \in {PreToolUse, PostToolUse}

\* The pipe-separated matchers and, for each, its alternatives with the
\* surrounding whitespace removed, written out.
PipeMatcherAlternatives ==
    <<[matcher |-> Str_edit \o Str_pipe \o Str_write \o Str_pipe \o Str_multiedit,
       alternatives |-> {Str_edit, Str_write, Str_multiedit}],
      [matcher |-> Str_edit \o Str_space \o Str_pipe \o Str_space \o Str_write,
       alternatives |-> {Str_edit, Str_write}],
      [matcher |-> Str_edit \o Str_pipe,
       alternatives |-> {Str_edit, Str_empty}],
      [matcher |-> Str_edit \o Str_pipe \o Str_star,
       alternatives |-> {Str_edit, Str_star}]>>

\* C14, as stated: for a tool-scoped event a pipe-separated matcher applies
\* exactly to the tool names that equal one of its trimmed alternatives
\* ("edit|write|multiedit" to edit, write and multiedit and to no other
\* name, "edit | write" to write, "Edit" to none of them).
C14_PipeMatcherAppliesToAlternativesOnly ==
    \A i \in 1..Len(PipeMatcherAlternatives) :
        LET row == PipeMatcherAlternatives[i] IN
        (matchResult.done /\ ToolEventCall /\ matchArgs.matcher.Matcher = row.matcher) =>
            (matchResult.applies <=> matchArgs.ctx.ToolName \in row.alternatives)

\* C14, amended: for a tool-scoped event a pipe-separated matcher applies
\* exactly to the tool names that equal one of its trimmed alternatives or
\* equal the whole matcher string.
C14_PipeMatcherAppliesToAlternativesOrWhole ==
    \A i \in 1..Len(PipeMatcherAlternatives) :
        LET row == PipeMatcherAlternatives[i] IN
        (matchResult.done /\ ToolEventCall /\ matchArgs.matcher.Matcher = row.matcher) =>
            (matchResult.applies <=> \/ matchArgs.ctx.ToolName \in row.alternatives
                                     \/ matchArgs.ctx.ToolName = row.matcher)

\* "edit | write" was found to apply to the tool write.
C14_Witness ==
    /\ matchResult.done /\ matchResult.applies
    /\ ToolEventCall
    /\ matchArgs.matcher.Matcher = Str_edit \o Str_space \o Str_pipe \o Str_space \o Str_write
    /\ matchArgs.ctx.ToolName = Str_write

\* C15: an empty matcher and "*" apply to every event and tool name, and
\* for an event that is not tool-scoped no other matcher applies, whatever
\* the tool name of the context.
C15_WildcardAndNonToolEvents ==
    matchResult.done =>
        LET wild == matchArgs.matcher.Matcher \in {Str_empty, Str_star} IN
        /\ wild => matchResult.applies
        /\ ~ToolEventCall => (matchResult.applies <=> wild)

\* The matcher "edit" was found not to apply to a stop event whose context
\* carries the tool name edit.
C15_Witness ==
    /\ matchResult.done /\ ~matchResult.applies
    /\ matchArgs.ctx.EventType = Stop
    /\ matchArgs.matcher.Matcher = Str_edit
    /\ matchArgs.ctx.ToolName = Str_edit

\* ========================================================================
\* Properties of the hook executor (SpecHooks)
\* ========================================================================

\* The positions in hookLog of the hooks Execute call k has started.
EntriesOf(k) == {i \in 1..Len(hookLog) : hookLog[i].call = k}

\* Hook (mi, hi) comes before hook (mj, hj) in the configured order.
ConfiguredBefore(mi, hi, mj, hj) == mi < mj \/ (mi = mj /\ hi < hj)

\* C16: within one Execute call the hooks run one after another in the
\* configured order: a hook is started only when every hook started before
\* it has ended, and of two hooks of one call the one started first comes
\* first in the configuration (matchers in list order, hooks of a matcher in
\* list order).
C16_HooksRunSequentiallyInOrder ==
    /\ \A i \in 1..Len(hookLog) : i < Len(hookLog) => hookLog[i].outcome # "running"
    /\ \A i, j \in 1..Len(hookLog) :
           (i < j /\ hookLog[i].call = hookLog[j].call) =>
               ConfiguredBefore(hookLog[i].mi, hookLog[i].hi, hookLog[j].mi, hookLog[j].hi)

\* One call has run both hooks of the first matcher and started the hook of
\* a later matcher.
C16_Witness ==
    \E i \in 1..Len(hookLog) :
        /\ i + 2 <= Len(hookLog)
        /\ hookLog[i].call = hookLog[i + 2].call
        /\ hookLog[i].command = "h1"
        /\ hookLog[i + 1].command = "h2"
        /\ hookLog[i + 2].command = "h3"
        /\ hookLog[i + 2].outcome = "running"

\* C17: a hook that fails, by a non-zero exit or by its timeout, is the last
\* hook its Execute call runs, and the call has returned that hook's error:
\* no later hook of the matcher and no hook of a later matcher runs.
C17_FailFast ==
    \A i \in 1..Len(hookLog) :
        hookLog[i].outcome \in {"exit", "timeout"} =>
            LET k == hookLog[i].call IN
            /\ \A j \in EntriesOf(k) : j <= i
            /\ hookCalls[k].returned
            /\ hookCalls[k].err = HookErr(hookLog[i].outcome, hookLog[i].mi, hookLog[i].hi)
            /\ ~(hookCall.active /\ hookCall.id = k)

\* The first hook of a matcher with two hooks timed out, a later matcher
\* applies as well, and a later Execute call has run a hook since.
C17_Witness ==
    \E i \in 1..Len(hookLog) :
        /\ hookLog[i].command = "h1"
        /\ hookLog[i].outcome = "timeout"
        /\ i < Len(hookLog)
        /\ hookLog[i + 1].call > hookLog[i].call

\* C18: a hook command runs under its configured timeout in seconds, under
\* 30 seconds when none is configured, and never under more than 300
\* seconds: a configured timeout above 300 is cut to 300.
C18_TimeoutDefaultAndCap ==
    \A i \in 1..Len(hookLog) :
        LET e == hookLog[i] IN
        /\ e.timeout <= 300
        /\ e.timeout = IF e.configured = <<>> THEN 30
                       ELSE IF e.configured[1] > 300 THEN 300 ELSE e.configured[1]

\* The hooks Execute has to run for a context: those of the matchers of the
\* context's event type that apply, in configured order.
RECURSIVE HooksFrom(_, _, _, _)
HooksFrom(ms, ctx, mi, hi) ==
    IF mi > Len(ms) THEN <<>>
    ELSE IF ~matcherApplies(ms[mi], ctx) \/ hi > Len(ms[mi].Hooks)
    THEN HooksFrom(ms, ctx, mi + 1, 1)
    ELSE <<ms[mi].Hooks[hi].Command>> \o HooksFrom(ms, ctx, mi, hi + 1)
Applicable(ctx) == HooksFrom(MatchersFor(ctx.EventType), ctx, 1, 1)

\* The number of hooks started by the calls before call k.
StartedBefore(k) == Cardinality({i \in 1..Len(hookLog) : hookLog[i].call < k})

\* C19: an Execute call runs hooks of applying matchers of its context's
\* event type only, each at most once and in configured order (the n-th
\* hook a call starts is the n-th of those it has to run); a call that
\* returns nil has run every one of them exactly once, and with no matcher
\* configured for the event the call returns nil at once and runs nothing;
\* the hooks of successive calls run in call order, each with the tool name
\* of its own call.
C19_ExactlyTheApplicableHooks ==
    /\ \A k \in 1..Len(hookCalls) :
           LET call == hookCalls[k]
               app == Applicable(call.ctx)
               mine == EntriesOf(k)
               before == StartedBefore(k)
           IN
           /\ \A i \in mine :
                  /\ i - before \in 1..Len(app)
                  /\ hookLog[i].command = app[i - before]
           /\ (call.returned /\ call.err = NoHookErr) => Cardinality(mine) = Len(app)
           /\ MatchersFor(call.ctx.EventType) = <<>> =>
                  call.returned /\ call.err = NoHookErr /\ mine = {}
    /\ \A i \in 1..Len(hookLog) :
           /\ hookLog[i].call \in 1..Len(hookCalls)
           /\ hookLog[i].tool = hookCalls[hookLog[i].call].ctx.ToolName
           /\ i < Len(hookLog) => hookLog[i].call <= hookLog[i + 1].call

\* One post_tool_use hook under "*": three calls with the tool names edit,
\* write and bash have returned nil and left exactly three records, edit,
\* write, bash, in that order.
C19_Witness ==
    /\ hookCfg = HookConfigOne
    /\ Len(hookCalls) = 3
    /\ \A k \in 1..3 : hookCalls[k].returned /\ hookCalls[k].err = NoHookErr
    /\ Len(hookLog) = 3
    /\ hookLog[1].tool = Str_edit
    /\ hookLog[2].tool = Str_write
    /\ hookLog[3].tool = Str_bash
    /\ \A i \in 1..3 : hookLog[i].command = "log" /\ hookLog[i].call = i

\* ========================================================================
\* Properties of the client event subscription (SpecEvents)
\* ========================================================================

\* The typed event the subscriber is to get for each known type tag.
TypedEventFor ==
    [tag \in KnownPayloadTypes |->
        CASE tag = "PayloadTypeLSPEvent"               -> "pubsub.Event[proto.LSPEvent]"
          [] tag = "PayloadTypeMCPEvent"               -> "pubsub.Event[proto.MCPEvent]"
          [] tag = "PayloadTypePermissionRequest"      -> "pubsub.Event[proto.PermissionRequest]"
          [] tag = "PayloadTypePermissionNotification" -> "pubsub.Event[proto.PermissionNotification]"
          [] tag = "PayloadTypeMessage"                -> "pubsub.Event[proto.Message]"
          [] tag = "PayloadTypeSession"                -> "pubsub.Event[proto.Session]"
          [] tag = "PayloadTypeFile"                   -> "pubsub.Event[proto.File]"
          [] tag = "PayloadTypeAgentEvent"             -> "pubsub.Event[proto.AgentEvent]"]

IsUnknownFrame(f) == f.line = "data" /\ f.tag \notin KnownPayloadTypes
IsKnownFrame(f)   == f.line = "data" /\ f.tag \in KnownPayloadTypes

\* The typed events of the known-type frames among the first n handled lines.
RECURSIVE ExpectedEvents(_)
ExpectedEvents(n) ==
    IF n = 0 THEN <<>>
    ELSE IF IsKnownFrame(evSent[n].frame)
         THEN Append(ExpectedEvents(n - 1), TypedEventFor[evSent[n].frame.tag])
         ELSE ExpectedEvents(n - 1)

\* C20: a frame of an unknown type is dropped without ending the read loop
\* or closing the channel: the loop ends only when the connection failed or
\* reached end-of-stream, and while the subscription is not cancelled every
\* handled frame of a known type, those after an unknown frame included, has
\* been put on the channel as the typed event of its tag, in order.
C20_UnknownTypeDroppedLoopGoesOn ==
    /\ \A i \in 1..Len(evSent) :
           IsUnknownFrame(evSent[i].frame) => evSent[i].did = "dropped"
    /\ evLoop.pc = "end" => evLoop.conn \in {"none", "eof"}
    /\ ~evCtx =>
           /\ ~evChan.closed
           /\ evLoop.pc # "panic"
           /\ \A i \in 1..Len(evSent) :
                  IsKnownFrame(evSent[i].frame) => evSent[i].did = "sent"
           /\ evGot \o evChan.buf = ExpectedEvents(Len(evSent))

\* A frame of an unknown type was dropped, and the frame of a known type
\* that came after it has reached the subscriber.
C20_Witness ==
    /\ ~evCtx
    /\ \E i, j \in 1..Len(evSent) :
           /\ i < j
           /\ IsUnknownFrame(evSent[i].frame)
           /\ evSent[i].did = "dropped"
           /\ IsKnownFrame(evSent[j].frame)
           /\ evSent[j].did = "sent"
           /\ evGot = <<TypedEventFor[evSent[j].frame.tag]>>

\* The connection has dropped and the read loop has taken every line that
\* arrived before: its next read reports the drop.
DropObserved ==
    /\ evLoop.pc = "read"
    /\ evStream = <<>>
    /\ evLoop.conn \in {"eof", "error"}

\* C21: when the read loop observes that the connection has dropped, as
\* end-of-stream or as a read error, the loop ends: it does not read again.
C21_DropEndsLoop ==
    [][DropObserved /\ evLoop' # evLoop => evLoop'.pc = "end"]_vars

\* ========================================================================
\* Properties of the server event streams (SpecStream)
\* ========================================================================

\* The events subscriber s has received: those it has written or failed to
\* write and the one it holds, in order.
EventsOf(s) ==
    [i \in 1..Len(streamSubs[s].handled) |-> streamSubs[s].handled[i].ev]
        \o (IF streamSubs[s].pc = "write" THEN <<streamSubs[s].hand>> ELSE <<>>)

\* The events published after subscriber s entered its loop.
PublishedSince(s) ==
    [i \in 1..(streamPub - streamSubs[s].since) |-> streamSubs[s].since + i]

\* Some subscriber's handler has failed to write a frame.
SomeWriteFailed ==
    \E s \in Subscribers :
        \E i \in 1..Len(streamSubs[s].handled) :
            streamSubs[s].handled[i].did = "write failed"

\* The events subscriber f received and failed to write.
FailedWrites(f) ==
    {streamSubs[f].handled[i].ev : i \in
        {j \in 1..Len(streamSubs[f].handled) : streamSubs[f].handled[j].did = "write failed"}}

\* The events subscriber f received after a write of its own had failed.
TakenAfterFailure(f) ==
    {EventsOf(f)[j] : j \in
        {k \in 1..Len(EventsOf(f)) :
            \E i \in 1..Len(streamSubs[f].handled) :
                i < k /\ streamSubs[f].handled[i].did = "write failed"}}

StreamsIsolated ==
    \A s \in Streaming :
        streamSubs[s].conn = "open" =>
            /\ \A f \in Subscribers \ {s} : \A ev \in TakenAfterFailure(f) : ev <= streamSubs[s].since
            /\ FailedWrites(s) = {}
            /\ streamSubs[s].pc = "select" /\ streamFeed # <<>> => ENABLED StreamReceive(s)
            /\ streamSubs[s].pc = "write" => ENABLED StreamWrite(s)

\* C22: a handler's failed write leaves the registry as it is, and every
\* other handler in its loop with an open connection is never kept from
\* taking its next step, fails no write of its own, and loses no event
\* published since it subscribed to a handler whose write has failed.
C22_WriteFailureIsIsolated ==
    /\ [](SomeWriteFailed => StreamsIsolated)
    /\ [][streamSubs' # streamSubs => instances' = instances]_vars

\* The environment a hook command is to see for context ctx: the event and
\* the context always, the session id and the tool name when the context
\* has one, and no other of the four variables.
EnvOfInvocation(env, ctx) ==
    /\ "CRUSH_HOOK_EVENT" \in DOMAIN env /\ env["CRUSH_HOOK_EVENT"] = <<ctx.EventType>>
    /\ "CRUSH_HOOK_CONTEXT" \in DOMAIN env /\ env["CRUSH_HOOK_CONTEXT"] = <<ctx>>
    /\ IF ctx.ToolName = Str_empty
       THEN "CRUSH_TOOL_NAME" \notin DOMAIN env
       ELSE "CRUSH_TOOL_NAME" \in DOMAIN env /\ env["CRUSH_TOOL_NAME"] = ctx.ToolName
    /\ IF ctx.SessionID = ""
       THEN "CRUSH_SESSION_ID" \notin DOMAIN env
       ELSE "CRUSH_SESSION_ID" \in DOMAIN env /\ env["CRUSH_SESSION_ID"] = <<ctx.SessionID>>

\* C23: every hook command runs with the environment of its own invocation:
\* the event, context, tool name and session id of the current Execute
\* call, the latter two absent when the context has none, whatever calls
\* were made before on the same executor.
C23_EnvDescribesCurrentInvocation ==
    \A i \in 1..Len(hookLog) :
        EnvOfInvocation(hookLog[i].env, hookCalls[hookLog[i].call].ctx)

\* C24: while a Kill of task id is still waiting for the runner, the task
\* has not yet been removed: Get(id) finds it and List() shows it.
C24_TaskListedWhileKillWaits ==
    \A id \in TaskIDs : killWaiting[id] > 0 => Get(id) /\ id \in List

\* No Kill has been called for task id.
NeverKilled(id) == killWaiting[id] = 0 /\ killOk[id] = 0 /\ lastKill.id # id

\* The context passed to Start was cancelled for task id: its execution
\* context is cancelled although no Kill was called.
ParentCancelled(id) == id \in DOMAIN bg /\ bg[id].cancelled /\ NeverKilled(id)

\* What the task's command had produced when Exec returned is what
\* GetOutput reports, with done = true.
FinalOutputReadable(id) ==
    /\ bg[id].doneClosed
    /\ GetOutputResult(bg[id]) =
           [stdout |-> Lines(bg[id].produced), stderr |-> bg[id].res.stderr,
            done |-> TRUE, err |-> bg[id].res.err]

\* C25: a task whose Start context is cancelled eventually becomes done;
\* once done, GetOutput reports the output and exit error Exec returned;
\* and the task stays registered as long as no Kill is called for it.
C25_ParentCancelStillReportsOutput ==
    /\ [](\A id \in TaskIDs : ParentCancelled(id) =>
              /\ Get(id)
              /\ bg[id].doneClosed => FinalOutputReadable(id))
    /\ \A id \in TaskIDs :
           ParentCancelled(id) ~> (id \in DOMAIN bg /\ FinalOutputReadable(id))

\* A command was interrupted by the cancellation of Start's context after
\* its first line; the task is done and still registered, and a GetOutput
\* call has returned that line with the exit error.
C25_Witness ==
    \E id \in TaskIDs :
        /\ ParentCancelled(id)
        /\ bg[id].res.err = "interrupted"
        /\ bg[id].produced = 1
        /\ bg[id].cmd.lines = 2
        /\ Get(id)
        /\ FinalOutputReadable(id)
        /\ lastOut.id = id
        /\ lastOut.out = [stdout |-> <<1>>, stderr |-> <<>>, done |-> TRUE, err |-> "interrupted"]

\* ========================================================================
\* Properties of the manager's locks (SpecLocks)
\* ========================================================================

\* Goroutine g holds m.mu, for writing or for reading.
HoldsMu(g) == lkMu.w = g \/ g \in lkMu.r

\* Goroutine g is in a Start or a Kill.
InStartOrKill(g) == lkCalls[g].op \in {"Start", "Kill"}

\* C26: m.mu is held only between a Lock or RLock and the Unlock that
\* follows it without waiting: never by a Kill at shell.cancel() or blocked
\* on <-shell.done, and the holder can always take its step to the unlock.
\* So while a Start or Kill is in progress and no other call is inside its
\* locked section, a List() or Get() takes the lock at once, and GetOutput
\* of a task waits for nothing but that task's own runner.
C26_RegistryLockNeverHeldWhileWaiting ==
    \A g \in Goroutines :
        /\ HoldsMu(g) => lkCalls[g].pc \in {"locked", "rlocked"}
        /\ lkMu.w = g /\ lkCalls[g].op = "Start" => ENABLED LkStartInsert(g)
        /\ lkMu.w = g /\ lkCalls[g].op = "Kill" => ENABLED LkKillDelete(g)
        /\ g \in lkMu.r => ENABLED LkReadReturn(g)
        /\ \A k \in Goroutines \ {g} :
               InStartOrKill(k) /\ lkCalls[k].pc # "locked" =>
                   /\ lkCalls[g].op \in {"Get", "List"} /\ lkCalls[g].pc = "rlock"
                          => ENABLED LkReadLock(g)
                   /\ At(g, "GetOutput", "rlock") /\ lkCalls[g].id # lkCalls[k].id
                          /\ lkRun[lkCalls[g].id].pc # "locked"
                          => ENABLED LkGetOutputLock(g)

\* A Kill of task 1 is blocked on its runner, which is still inside Exec,
\* while another goroutine is inside List() with the read lock and task 2
\* registered.
C26_Witness ==
    /\ lkCalls["g1"] = [op |-> "Kill", id |-> 1, pc |-> "wait"]
    /\ lkRun[1].pc = "exec"
    /\ lkCalls["g2"] = [op |-> "List", id |-> 1, pc |-> "rlocked"]
    /\ "g2" \in lkMu.r
    /\ 2 \in lkShells

\* C27: a task that was started and for which no Kill has been called is
\* found by Get() and listed by List(), whether it is running, has
\* completed or has failed; and an id leaves the registry only in a step
\* of a Kill for that id.
C27_RegisteredUntilKill ==
    /\ [](\A id \in DOMAIN bg : NeverKilled(id) => Get(id) /\ id \in List)
    /\ [][\A id \in shells : id \notin shells' =>
              /\ lastKill' = [id |-> id, err |-> "found"]
              /\ killWaiting'[id] = killWaiting[id] + 1]_vars

\* A task whose command failed is done, was never killed and is still
\* listed.
C27_Witness ==
    \E id \in DOMAIN bg :
        /\ NeverKilled(id)
        /\ Step(bg[id]) = "finished"
        /\ bg[id].exitErr = "exit"
        /\ Get(id)
        /\ id \in List

\* ========================================================================
\* Properties of the health probe and the reconnect (SpecMCP)
\* ========================================================================

\* The tool call of w found a handle, probed it, and gave up.
ProbedAndGaveUp(w) ==
    /\ mcpThreads[w].pc = "end"
    /\ mcpThreads[w].result = "failed"
    /\ mcpThreads[w].err # "not available"

\* The steps of a tool call around the probe: a successful probe ends the
\* call's getOrRenewClient with the handle it probed and changes no
\* registry; a failed one records `error` and leads to the reconnect; the
\* reconnect is attempted once and leads to the renewed handle or to the
\* return of an error, never to another probe or attempt.
ProbeThenOneReconnect(w) ==
    LET t == mcpThreads[w]
        u == mcpThreads'[w]
    IN
    /\ t.pc = "ping" /\ u.pc = "end" =>
           /\ u.result = "called" /\ u.c = t.c
           /\ UNCHANGED <<mcpStates, mcpClients, mcpTools, mcpClient2Tools>>
    /\ t.pc = "ping" /\ u.pc \notin {"ping", "end"} =>
           u.pc = "update" /\ u.upd.state = "error" /\ u.upd.err = "ping" /\ u.ret = "reconnect"
    /\ t.pc # "reconnect" /\ u.pc = "reconnect" => t.pc = "update" /\ t.ret = "reconnect"
    /\ t.pc = "reconnect" /\ u.pc # "reconnect" =>
           /\ u.pc = "update"
           /\ \/ u.upd.state = "connected" /\ u.ret = "renewed" /\ u.c = Handle(t.name, w)
              \/ u.upd.state = "error" /\ u.ret = "end" /\ u.result = "failed"
    /\ t.pc \in {"renewed", "end"} => u.pc \in {"renewed", "end"}

\* C28, as stated: a tool call probes the provider's connection; a
\* successful probe uses the connection and changes nothing, a failed one
\* is followed by exactly one connect-and-handshake attempt, and when that
\* fails too the call returns the probe error.
C28_GiveUpReturnsProbeError ==
    /\ [][\A w \in Callers : ProbeThenOneReconnect(w)]_vars
    /\ [](\A w \in Callers : ProbedAndGaveUp(w) => mcpThreads[w].err = "ping")

\* C28, amended: as above, but when the attempt fails too the call
\* returns the error of that attempt.
C28_GiveUpReturnsConnectError ==
    /\ [][\A w \in Callers : ProbeThenOneReconnect(w)]_vars
    /\ [](\A w \in Callers : ProbedAndGaveUp(w) =>
              /\ mcpThreads[w].err \in {"create", "start", "init"}
              /\ mcpThreads[w].c = NoHandle)

\* A tool call whose probe failed and whose handshake then failed has
\* returned the handshake error.
C28_Witness ==
    \E w \in Callers :
        /\ ProbedAndGaveUp(w)
        /\ mcpThreads[w].err = "init"
        /\ mcpStates[mcpThreads[w].name].State = "error"
        /\ mcpStates[mcpThreads[w].name].Error = "init"

\* C29: a tool invocation on a provider recorded in state `error` goes on
\* to the connect-and-handshake attempt: it does not end at the lookup of
\* the connection handle.
C29_ErrorReconnectsOnNextUse ==
    [][\A w \in Callers :
          /\ mcpThreads[w].pc = "get"
          /\ mcpStates[mcpThreads[w].name].State = "error"
          /\ mcpThreads'[w].pc # "get"
          => mcpThreads'[w].pc # "end"]_vars

\* The recorded state of provider n; "none" before doGetMCPTools records one.
StateOf(states, n) == IF n \in DOMAIN states THEN states[n].State ELSE "none"

\* The transitions of the provider state machine.
StateTransitions ==
    {<<"none", "disabled">>, <<"none", "starting">>, <<"disabled", "starting">>,
     <<"starting", "connected">>, <<"starting", "error">>, <<"connected", "error">>,
     <<"error", "connected">>, <<"error", "error">>}

\* C30: every change of a provider's recorded state is a transition of the
\* state machine; a provider disabled in the configuration is recorded
\* `disabled` only and its initialization is never started; and `error`
\* changes to `connected` only with a handle that a reconnect in a tool
\* call has created.
C30_StateMachine ==
    [][\A n \in Names :
          LET s == StateOf(mcpStates, n)
              u == StateOf(mcpStates', n)
          IN
          /\ s # u => <<s, u>> \in StateTransitions
          /\ mcpCfg[n].Disabled => u \in {"none", "disabled"} /\ mcpThreads'[n] = IdleThread
          /\ ~mcpCfg[n].Disabled => u # "disabled"
          /\ s = "error" /\ u = "connected" => mcpStates'[n].Client.by \in Callers]_vars

\* ========================================================================
\* Properties of the startup of a provider (SpecMCP)
\* ========================================================================

\* The startup goroutine of provider n has run to its end.
StartupEnded(n) == mcpThreads[n].pc = "end"

\* The tools of provider n that the agent can see.
Published(n) == {x \in ToolsOf(n) : ToolName(n, x) \in mcpTools}

\* C31: the startup goroutine of a provider enumerates tools only with the
\* handle of a successful connect and handshake; a provider that the
\* startup records `connected` has passed all three steps, and a provider
\* whose initial tool enumeration failed is, once its startup has ended,
\* recorded `error`, with no handle in the client registry or the state
\* record and with none of its tools published.
C31_ConnectedOnlyAfterEnumeration ==
    \A n \in Names :
        LET t == mcpThreads[n] IN
        /\ t.pc \in {"getTools", "close", "publish"} => t.c = Handle(n, n)
        /\ n \in DOMAIN mcpStates /\ mcpStates[n].State = "connected"
              /\ mcpStates[n].Client = Handle(n, n)
           => t.err = "nil" /\ t.tools = ToolsOf(n)
        /\ StartupEnded(n) /\ t.err = "list"
           => /\ mcpStates[n].State = "error"
              /\ mcpStates[n].Client = NoHandle
              /\ n \notin DOMAIN mcpClients
              /\ Published(n) = {}

\* ========================================================================
\* Properties of the notification handler (SpecMCP)
\* ========================================================================

\* This step is the handler's run for a notification of provider n with
\* the given method.
Notified(n, method) ==
    /\ mcpNotified'[n].count = mcpNotified[n].count + 1
    /\ mcpNotified'[n].method = method

\* C32: the handler's run for a tools/list_changed notification of a
\* provider publishes one tools_list_changed event for it and no other
\* event, and leaves the recorded states, the client registry, the
\* published tools and every goroutine and call as they are.
C32_NotificationOnlyPublishes ==
    [][\A n \in Names :
          Notified(n, "notifications/tools/list_changed") =>
              /\ mcpPublished' = [mcpPublished EXCEPT ![n][MCPEventToolsListChanged] = @ + 1]
              /\ UNCHANGED <<mcpStates, mcpClients, mcpTools, mcpClient2Tools, mcpThreads,
                             mcpMain, mcpClosed>>]_vars

\* A connected provider with a tool call in progress has sent a
\* tools/list_changed notification, and its event has been published.
C32_Witness ==
    \E n \in Names :
        /\ mcpNotified[n] = [count |-> 1, method |-> "notifications/tools/list_changed"]
        /\ mcpPublished[n][MCPEventToolsListChanged] = 1
        /\ mcpStates[n].State = "connected"
        /\ Published(n) = ToolsOf(n)
        /\ \E w \in Callers : mcpThreads[w].name = n /\ mcpThreads[w].pc = "ping"

\* ========================================================================
\* Properties of the cancellation of Execute (SpecHooks)
\* ========================================================================

\* Execute has returned err from the call in progress.
ReturnsWith(err) ==
    /\ hookCalls'[hookCall.id].returned
    /\ hookCalls'[hookCall.id].err = err
    /\ ~hookCall'.active

\* C33: when the call in progress comes to a matcher with its context
\* cancelled, its next step returns the context's error and starts no hook;
\* when the context is cancelled while a hook runs, the end of that hook
\* returns the cancellation as the error of that hook; and a hook is started
\* only by a call that has not returned, so none runs after either return.
C33_CancellationBetweenMatchersAndInHook ==
    [][LET c == hookCall
           ms == MatchersFor(c.ctx.EventType)
       IN
       /\ c.active /\ c.cancelled /\ c.hi = 0 /\ ~c.running /\ c.mi <= Len(ms)
             /\ hookCall' # hookCall
          => ReturnsWith(HookErr("context canceled", 0, 0)) /\ hookLog' = hookLog
       /\ c.active /\ c.cancelled /\ c.running /\ hookCall' # hookCall
          => /\ ReturnsWith(HookErr("canceled", c.mi, c.hi))
             /\ Len(hookLog') = Len(hookLog)
       /\ Len(hookLog') > Len(hookLog)
          => /\ c.active /\ ~hookCalls[c.id].returned
             /\ hookLog'[Len(hookLog')].call = c.id]_vars

\* A call was cancelled while the first of the two hooks of a matcher ran:
\* it has returned the cancellation, and the second hook has not run.
C33_Witness ==
    /\ Len(hookCalls) >= 1
    /\ hookCalls[1].returned
    /\ hookCalls[1].err = HookErr("canceled", 1, 1)
    /\ Len(MatchersFor(hookCalls[1].ctx.EventType)[1].Hooks) = 2
    /\ \A i \in 1..Len(hookLog) : hookLog[i].call = 1 => hookLog[i].hi = 1 /\ hookLog[i].mi = 1

\* ========================================================================
\* Properties of a failed create (SpecServer)
\* ========================================================================

\* The last request was a create that failed.
CreateFailed(l) == l.op = "create" /\ l.status # 200

\* C34: a create that fails at any of its steps is answered with an error
\* status and a message, returns no descriptor and leaves the registry as
\* it was, so a path whose create failed past the decoding is not
\* registered by it; and a create for a path that is not registered takes
\* the creating path: it registers the instance and returns the descriptor
\* of a first create.
C34_FailedCreateRegistersNothing ==
    [][/\ CreateFailed(last') =>
              /\ last'.status \in {400, 500}
              /\ last'.msg # ""
              /\ last'.body = NoBody
              /\ instances' = instances
              /\ last'.id # NoID => last'.id = InstanceID(last'.path)
                                    /\ last'.id \notin DOMAIN instances'
       /\ last'.op = "create" /\ last'.status = 200 /\ last'.id \notin DOMAIN instances =>
              /\ ~last'.hit
              /\ last'.id \in DOMAIN instances'
              /\ last'.body = CreatedDescriptor(last'.id, last'.path, last'.body.YOLO)
              /\ instances'[last'.id].created = last'.body]_vars

\* With an instance registered for one directory, the create for another
\* failed at the construction of the app.
C34_Witness ==
    /\ CreateFailed(last)
    /\ last.msg = "failed to create app instance"
    /\ last.id \notin DOMAIN instances
    /\ instances # <<>>

\* ========================================================================
\* Properties of concurrent creates (SpecCreate)
\* ========================================================================

\* The create requests answered 200 for the canonical path with this id.
Answered(id) == {h \in Handlers : crCalls[h].pc = "done" /\ crCalls[h].status = 200 /\ crCalls[h].id = id}

\* C35: for every canonical path at most one instance is ever constructed,
\* all create requests answered for the path got the descriptor of that
\* one instance, and no step replaces an instance that is registered.
C35_ConcurrentCreatesShareOneInstance ==
    /\ [](\A id \in {InstanceID(p) : p \in CreatePaths} :
              /\ Cardinality({a \in crApps : a.id = id}) <= 1
              /\ \A g, h \in Answered(id) :
                     crCalls[g].of = crCalls[h].of /\ crCalls[g].body.ID = crCalls[h].body.ID)
    /\ [][\A id \in DOMAIN crInstances :
              id \in DOMAIN crInstances' /\ crInstances'[id] = crInstances[id]]_vars

\* ========================================================================
\* Properties of the return of the startup (SpecMCP)
\* ========================================================================

\* C36: once doGetMCPTools has returned, every provider that is not
\* disabled is recorded `connected` or `error`, and its startup goroutine
\* has nothing left to record.
C36_StartupReturnsAfterEveryProviderSettled ==
    mcpMain.returned =>
        \A n \in Names :
            ~mcpCfg[n].Disabled =>
                /\ mcpStates[n].State \in {"connected", "error"}
                /\ mcpThreads[n].pc = "end"

\* ========================================================================
\* Properties of the record of a connected provider (SpecMCP)
\* ========================================================================

\* C37: a provider recorded `connected` has as its tool count the number of
\* its tools that are published, and the handle of its state record is the
\* handle the client registry holds for it, which has not been closed.
C37_ConnectedRecordMatchesRegistries ==
    \A n \in DOMAIN mcpStates :
        mcpStates[n].State = "connected" =>
            /\ mcpStates[n].ToolCount = Cardinality(Published(n))
            /\ n \in DOMAIN mcpClients
            /\ mcpClients[n] = mcpStates[n].Client
            /\ mcpStates[n].Client \notin mcpClosed

\* ========================================================================
\* Properties of the end of a subscription (SpecEvents)
\* ========================================================================

\* C38: the read loop never closes the channel a second time and never
\* sends on it once it is closed, and from the cancellation of the
\* subscription context on it puts no further event into the channel.
C38_ClosedOnceNothingSentAfterCancel ==
    /\ [](evLoop.pc # "panic")
    /\ [][evCtx => Len(evChan'.buf) <= Len(evChan.buf)]_vars

\* ========================================================================
\* Properties of two subscribers of one instance (SpecStream)
\* ========================================================================

\* The events subscriber s has received of those published after it entered
\* its loop, in the order it received them.
ReceivedSince(s) == SelectSeq(EventsOf(s), LAMBDA ev : ev > streamSubs[s].since)

\* Nothing is on its way: the event channel is empty and no handler holds an
\* event it has yet to write.
Quiet == streamFeed = <<>> /\ \A s \in Subscribers : streamSubs[s].pc # "write"

\* C39: with two handlers in their loops for the instance, each with an open
\* connection, once nothing is on its way each of them has received every
\* event published since it entered its loop, in the order of publication.
C39_EveryEventReachesBothSubscribers ==
    (Streaming = Subscribers /\ Quiet /\ \A s \in Subscribers : streamSubs[s].conn = "open") =>
        \A s \in Subscribers : ReceivedSince(s) = PublishedSince(s)

\* ========================================================================
\* Properties of the client's instance identifier (SpecClient)
\* ========================================================================

\* C40: for every working directory, canonical or not, the id an attached
\* client holds, and the id every per-instance request of it carries, is
\* the id under which the server registered the instance created for
\* that directory: the hash of the cleaned path.
C40_ClientUsesTheServersID ==
    \A c \in Clients :
        /\ clClients[c].pc = "attached" => clClients[c].id = InstanceID(clClients[c].cwd)
        /\ clLast[c].op # "" => clLast[c].id = InstanceID(clClients[c].cwd)

====
